---- MODULE Spec2Model ----
(***************************************************************************)
(* CustomHLSStreamer: process supervision (FFmpegService), the bounded     *)
(* log rings of FFmpegService / ZmqService, and the orchestration of       *)
(* startup and shutdown (HLSStreamerApp, ShutdownHandler).                 *)
(*                                                                         *)
(* Specifications                                                          *)
(*   Spec     FFmpegService driven through its public methods in any       *)
(*            interleaving with child events and timer firings             *)
(*   LiveSpec Spec plus weak fairness of the timer callbacks (a timer that *)
(*            was armed with setTimeout does fire)                         *)
(*   LogSpec  one log ring (of FFmpegService or of ZmqService) under       *)
(*            addToLogBuffer, getLogs, clearLogs, onLog and unsubscribe    *)
(*   AppSpec  the application: HLSStreamerApp.start(), the child events    *)
(*            and timers it leads to, and ShutdownHandler                  *)
(*   ZmqSpec  ZmqService under initialize, sendInstruction and close, with *)
(*            the sends, binds and closes settling in any order            *)
(*   FifoSpec FifoService under createAll and cleanup, over whatever a     *)
(*            previous run left at the paths of the channels               *)
(*   WriteSpec FifoService under writeContent and writeLayer, with the     *)
(*            opens and writes of the streams they create in any order     *)
(*   HlsSpec  HlsService under cleanupOldSegments and                      *)
(*            getCurrentSegmentCount, with the child process removing and  *)
(*            writing segments while a retention pass is under way         *)
(*   SweepSpec HlsService under cleanupAll                                 *)
(*   ArgSpec  the canUseFifos() of FifoService and of FFmpegService and    *)
(*            buildArgs(), on every platform and configuration             *)
(*   SchedSpec HlsService under startCleanupScheduler, stopCleanupScheduler*)
(*            and the firings of the intervals that are armed              *)
(*   ContentSpec FFmpegService.initializeContent() on every platform, with *)
(*            the generation of the placeholder succeeding or failing      *)
(*   KillSpec Spec with the history of which child each stop() was called  *)
(*            for and which children were spawned since restart()          *)
(*   RestartSpec one restart() of a supervised child whose spawns succeed, *)
(*            with the timers firing in the order of their delays          *)
(*   StreamSpec the ring of FFmpegService with the connections of          *)
(*            StreamController.streamLogs                                  *)
(*   FanSpec  one log ring with subscribers whose callbacks may throw      *)
(*   RateSpec the middleware of validateRateLimit() under the requests of  *)
(*            two clients while the clock advances                         *)
(***************************************************************************)
EXTENDS Integers, Sequences, FiniteSets, TLC

(***************************************************************************)
(* Bounds of the model                                                     *)
(***************************************************************************)
\* child-process objects that can exist at once (slots are recycled once
\* the 'close' event of a child has been delivered)
MaxChildren == 2
\* force-kill timers (armed by stop()) that can be pending at once
MaxKillTimers == 1
\* capacity of a log ring in the model; stands for maxLogBuffer = 1000
LogCap == 2
\* addToLogBuffer calls made on the ring under test
MaxAppends == 3
\* onLog calls made on the ring under test
MaxSubs == 2
\* calls of unsubscribe functions made on the ring under test
MaxUnsubs == 2
\* entries the calls made on ZmqService append to its ring, the calls that
\* are still suspended at an await included
MaxZmqOps == 4
\* overlay layer channels that can be configured (CONFIG.fifos.layers)
MaxLayers == 2
\* writeContent and writeLayer calls made on FifoService
MaxCalls == 2
\* segment files ffmpeg can have written to CONFIG.hls.outputDir
MaxSegments == 5
\* segments the present child has written since it was started again
MaxRestarted == 1
\* CONFIG.hls.playlistSize, which the configuration keeps at 1 or more
MaxPlaylistSize == 1
\* cleanupOldSegments() and cleanupAll() calls made on HlsService
MaxHlsCalls == 2
\* segments the child process removes or writes while one pass is under way
MaxWriterOps == 1
\* startCleanupScheduler() calls made on HlsService
MaxIntervals == 3
\* streamLogs connections made
MaxClients == 2
\* firings of the keep-alive intervals of the streamLogs connections
MaxBeats == 1
\* length of the window of the rate limiter in clock ticks; stands for
\* windowMs = 60000
RateWindow == 3
\* requests admitted per window; stands for maxRequests = 30
RateMax == 2
\* the latest reading of Date.now() in the model
MaxTime == 4
\* requests that pass through the rate limiter
MaxArrivals == 5

VARIABLES
  process,        \* FFmpegService.process: 0 is null, else the child object
  children,       \* the ChildProcess objects made by spawn()
  isShuttingDown, \* FFmpegService.isShuttingDown
  restartTimers,  \* pending setTimeout(..., 5000) of the close handler
  killTimers,     \* pending setTimeout(..., 10000) of stop()
  restartWaits,   \* restart() calls suspended in their 500 ms pause
  logBuffer,      \* logBuffer of the service (of the ring under test)
  ev,             \* the handler that ran last and what it did
  ring,           \* LogSpec: the service whose ring is under test
  logListeners,   \* logListeners: a Set, kept in insertion order
  tick,           \* calls made on the ring so far (orders them in time)
  appended,       \* every entry ever passed through addToLogBuffer
  clearedAt,      \* Len(appended) at the last clearLogs()
  delivered,      \* per callback, the entries it was invoked with
  subs,           \* the onLog calls made: callback and time of the call
  unsubCalls,     \* the unsubscribe calls: which onLog's function, when
  appPc,          \* the await at which HLSStreamerApp.start() stands
  hostExit,       \* the code passed to process.exit, -1 while the host runs
  zmqSocket,      \* ZmqService.socket: "null" or the state of the socket
  zmqInitDone,    \* ZmqService.initialize() has returned its socket
  zmqLogBuffer,   \* ZmqService.logBuffer
  zmqAppended,    \* addToLogBuffer calls ZmqService has made on its ring
  zmqClosePending,\* close() waits for the promise of socket.close()
  zmqBindPending, \* initialize() waits for the promise of socket.bind()
  zmqPending,     \* the commands whose socket.send() has not settled yet
  zmqEv,          \* the call on ZmqService that ran last and what it did
  layerCount,     \* CONFIG.fifos.layers.length
  canUseFifos,    \* what FifoService.canUseFifos() returns on this platform
  mkfifoWorks,    \* the mkfifo command succeeds in CONFIG.fifos.baseDir
  objs,           \* the backing objects: 0 is content, k + 1 is layer k
  activeFifos,    \* FifoService.activeFifos
  streams,        \* the fs.WriteStream objects that have not finished
  uncaught,       \* the channel whose stream emitted an unhandled 'error'
  nCalls,         \* writeContent and writeLayer calls made so far
  contentCalls,   \* the paths appended to the present content object
  layerCalls,     \* per channel, the source of the last accepted writeLayer
  fifoEv,         \* the call on FifoService that ran last and what it did
  startTimer,     \* the setTimeout(..., 2000) of HLSStreamerApp.start()
  cleanupInterval,\* HlsService.cleanupInterval is set
  fifosExist,     \* the backing objects of the input channels exist
  sdFlag,         \* ShutdownHandler.isShuttingDown
  sdPc,           \* the await at which gracefulShutdown stands
  sdTrace,        \* the calls shutdownServices has made, in order
  hlsDir,         \* CONFIG.hls.outputDir: per file name its mtime, 0 if absent
  dirReadable,    \* fs.readdirSync(CONFIG.hls.outputDir) does not throw
  playlistSize,   \* CONFIG.hls.playlistSize
  pass,           \* the cleanupOldSegments() pass under way, or the last one
  nHlsCalls,      \* cleanupOldSegments() and cleanupAll() calls made so far
  hlsEv,          \* the call on HlsService that ran last and what it did
  hlsInterval,    \* HlsService.cleanupInterval: 0 is null, else the timer
  timers,         \* the setInterval timers that are armed
  nIntervals,     \* setInterval calls made so far
  schedStopped,   \* stopCleanupScheduler() returned, no start since
  platform,       \* process.platform
  env,            \* the names of the variables that are set in process.env
  backgroundText, \* CONFIG.background.text is not empty
  argEv,          \* the call of canUseFifos() or buildArgs() that ran last
  mediaFiles,     \* which of the initial content and the placeholder exist
  initPc,         \* the await at which initializeContent() stands
  initEv,         \* what initializeContent() has done so far
  track,          \* history of the supervisor: the child each pending
                  \* force-kill timer was armed for, and the children
                  \* spawned since restart() was called
  stream,         \* the streamLogs connections: what was written to each
                  \* response, and what the last notification loop did
  rate            \* validateRateLimit: its Map, the clock, and the history
                  \* of the requests it has answered

supVars == <<process, children, isShuttingDown, restartTimers, killTimers,
             restartWaits, logBuffer, ev>>

logVars == <<ring, logListeners, tick, appended, clearedAt, delivered, subs,
             unsubCalls>>

appVars == <<appPc, hostExit, zmqSocket, zmqInitDone, zmqLogBuffer, zmqAppended,
             zmqClosePending, startTimer, cleanupInterval, fifosExist, sdFlag,
             sdPc, sdTrace>>

chanVars == <<zmqBindPending, zmqPending, zmqEv>>

fifoVars == <<layerCount, canUseFifos, mkfifoWorks, objs, activeFifos, streams,
              uncaught, nCalls, contentCalls, layerCalls, fifoEv>>

dirVars == <<hlsDir, dirReadable, playlistSize, pass, nHlsCalls, hlsEv>>

schedVars == <<hlsInterval, timers, nIntervals, schedStopped>>

hlsVars == <<dirVars, schedVars>>

argVars == <<platform, env, backgroundText, argEv>>

initVars == <<mediaFiles, initPc, initEv>>

trackVars == <<track>>

sideVars == <<stream, rate>>

vars == <<supVars, logVars, appVars, chanVars, fifoVars, hlsVars, argVars,
          initVars, trackVars, sideVars>>

(***************************************************************************)
(* Log ring                                                                *)
(***************************************************************************)
maxLogBuffer == LogCap

LogEntry(ts, type, message) ==
  [timestamp |-> ts, type |-> type, message |-> message]

\* Array.prototype.slice(-n): the last n elements
SliceLast(s, n) ==
  IF Len(s) <= n THEN s ELSE SubSeq(s, Len(s) - n + 1, Len(s))

\* a trim that keeps the oldest entries instead of the newest
addToLogBuffer_keepOldest(buf, entry) ==
  LET pushed == Append(buf, entry)
  IN  IF Len(pushed) > maxLogBuffer
        THEN SubSeq(pushed, 1, maxLogBuffer)
        ELSE pushed

\* FFmpegService.addToLogBuffer, the buffer part: push, then trim
addToLogBuffer(buf, entry) ==
  LET pushed == Append(buf, entry)
  IN  IF Len(pushed) > maxLogBuffer
        THEN SliceLast(pushed, maxLogBuffer)
        ELSE pushed

\* ZmqService.addToLogBuffer, the buffer part: push, then trim
ZmqAddToLogBuffer(buf, entry) ==
  LET pushed == Append(buf, entry)
  IN  IF Len(pushed) > maxLogBuffer
        THEN SliceLast(pushed, maxLogBuffer)
        ELSE pushed

Callbacks == {1, 2}

\* the type of the entries appended to the ring under test
EntryType == [ffmpeg |-> "stderr", zmq |-> "sent"]

\* position of x in the sequence s, 0 when absent
IndexOf(s, x) ==
  IF \E i \in 1..Len(s) : s[i] = x
    THEN CHOOSE i \in 1..Len(s) : s[i] = x
    ELSE 0

\* Set.prototype.add: an element already present keeps its place
SetAdd(s, x) == IF IndexOf(s, x) # 0 THEN s ELSE Append(s, x)

\* Set.prototype.delete
SetDelete(s, x) ==
  LET i == IndexOf(s, x)
  IN  IF i = 0 THEN s ELSE SubSeq(s, 1, i - 1) \o SubSeq(s, i + 1, Len(s))

\* the notification loop of addToLogBuffer: every listener of the Set is
\* called once with the entry, in insertion order; the callbacks modelled
\* here record the entry and return (as the one of streamLogs does)
RECURSIVE Notify(_, _, _)
Notify(listeners, entry, dl) ==
  IF listeners = <<>>
    THEN dl
    ELSE Notify(Tail(listeners), entry,
                [dl EXCEPT ![Head(listeners)] = Append(@, entry)])

(***************************************************************************)
(* Child processes                                                         *)
(***************************************************************************)
ChildIds == 1..MaxChildren

\* st:  "free"     no such object
\*      "running"  spawned, the OS process has not exited
\*      "exited"   the OS process has exited, 'close' not yet delivered
\*      "failed"   spawn failed (e.g. ENOENT), 'error' not yet delivered
\*      "errored"  'error' delivered, 'close' (which follows it) not yet
\* sig: the strongest signal sent to it with kill()
NoChild == [st |-> "free", sig |-> "none"]

FreeSlots == {c \in ChildIds : children[c].st = "free"}

Occupied == Cardinality(ChildIds \ FreeSlots)

Min(S) == CHOOSE x \in S : \A y \in S : x <= y

\* children that were spawned and have not yet exited
LiveChildren == {c \in ChildIds : children[c].st = "running"}

\* ChildProcess.kill(signal): a signal reaches only a process that runs
kill(ch, c, signal) ==
  IF ch[c].st = "running" /\ ch[c].sig # "SIGKILL"
    THEN [ch EXCEPT ![c].sig = signal]
    ELSE ch

isRunning == process # 0

Ev(op, c, spawned, scheduled, failed) ==
  [op |-> op, child |-> c, spawned |-> spawned, scheduled |-> scheduled,
   failed |-> failed]

(***************************************************************************)
(* FFmpegService methods and callbacks                                     *)
(***************************************************************************)
\* start() without its "already running" guard
start_noGuard(ok) ==
  IF FreeSlots = {}
    THEN UNCHANGED <<process, children, logBuffer>>
    ELSE LET c == Min(FreeSlots) IN
         /\ logBuffer' = addToLogBuffer(
                           addToLogBuffer(logBuffer,
                             LogEntry(0, "system", "Starting FFmpeg process...")),
                           LogEntry(0, "system", "FFmpeg command"))
         /\ children' = [children EXCEPT
                           ![c] = [st |-> IF ok THEN "running" ELSE "failed",
                                   sig |-> "none"]]
         /\ process' = c

\* start(): ok says whether the OS could spawn the binary.
\* Changes process, children, logBuffer.
start(ok) ==
  IF process # 0
    THEN UNCHANGED <<process, children, logBuffer>>
    ELSE LET c == Min(FreeSlots) IN
         /\ logBuffer' = addToLogBuffer(
                           addToLogBuffer(logBuffer,
                             LogEntry(0, "system", "Starting FFmpeg process...")),
                           LogEntry(0, "system", "FFmpeg command"))
         /\ children' = [children EXCEPT
                           ![c] = [st |-> IF ok THEN "running" ELSE "failed",
                                   sig |-> "none"]]
         /\ process' = c

\* stop(): changes children, killTimers.
stop ==
  IF process # 0
    THEN /\ children' = kill(children, process, "SIGTERM")
         /\ killTimers' = killTimers + 1
    ELSE UNCHANGED <<children, killTimers>>

\* a close handler that never arms the backoff timer
OnClose_noRestart(c) ==
  /\ children[c].st \in {"exited", "errored"}
  /\ children' = [children EXCEPT ![c] = NoChild]
  /\ process' = 0
  /\ logBuffer' = addToLogBuffer(logBuffer,
                    LogEntry(0, "system", "FFmpeg process closed"))
  /\ ev' = Ev("close", c, FALSE, FALSE, children[c].st = "errored")
  /\ UNCHANGED <<isShuttingDown, restartTimers, killTimers, restartWaits>>

\* the 'close' handler registered by start() on child c
OnClose(c) ==
  /\ children[c].st \in {"exited", "errored"}
  /\ children' = [children EXCEPT ![c] = NoChild]
  /\ process' = 0
  /\ IF ~isShuttingDown
       THEN /\ logBuffer' = addToLogBuffer(
                              addToLogBuffer(logBuffer,
                                LogEntry(0, "system", "FFmpeg process closed")),
                              LogEntry(0, "system",
                                "FFmpeg exited unexpectedly, restarting in 5 seconds..."))
            /\ restartTimers' = restartTimers + 1
       ELSE /\ logBuffer' = addToLogBuffer(logBuffer,
                              LogEntry(0, "system", "FFmpeg process closed"))
            /\ UNCHANGED restartTimers
  /\ ev' = Ev("close", c, FALSE, ~isShuttingDown, children[c].st = "errored")
  /\ UNCHANGED <<isShuttingDown, killTimers, restartWaits>>

\* an error handler that keeps the handle
OnError_keepHandle(c) ==
  /\ children[c].st = "failed"
  /\ children' = [children EXCEPT ![c].st = "errored"]
  /\ logBuffer' = addToLogBuffer(logBuffer,
                    LogEntry(0, "error", "FFmpeg process error"))
  /\ ev' = Ev("error", c, FALSE, FALSE, TRUE)
  /\ UNCHANGED <<process, isShuttingDown, restartTimers, killTimers,
                 restartWaits>>

\* the 'error' handler registered by start() on child c
OnError(c) ==
  /\ children[c].st = "failed"
  /\ children' = [children EXCEPT ![c].st = "errored"]
  /\ logBuffer' = addToLogBuffer(logBuffer,
                    LogEntry(0, "error", "FFmpeg process error"))
  /\ process' = 0
  /\ ev' = Ev("error", c, FALSE, FALSE, TRUE)
  /\ UNCHANGED <<isShuttingDown, restartTimers, killTimers, restartWaits>>

\* a backoff callback that does not look at the shutdown flag
RestartTimerFire_noFlagCheck ==
  /\ restartTimers > 0
  /\ restartTimers' = restartTimers - 1
  /\ \E ok \in BOOLEAN : start(ok)
  /\ ev' = Ev("restartTimer", process', process = 0, FALSE, FALSE)
  /\ UNCHANGED <<isShuttingDown, killTimers, restartWaits>>

\* the callback of the close handler's setTimeout(..., 5000)
RestartTimerFire ==
  /\ restartTimers > 0
  /\ restartTimers' = restartTimers - 1
  /\ IF ~isShuttingDown
       THEN \E ok \in BOOLEAN : start(ok)
       ELSE UNCHANGED <<process, children, logBuffer>>
  /\ ev' = Ev("restartTimer", process', ~isShuttingDown /\ process = 0,
              FALSE, FALSE)
  /\ UNCHANGED <<isShuttingDown, killTimers, restartWaits>>

\* a force-kill callback that signals but keeps the handle
KillTimerFire_keepHandle ==
  /\ killTimers > 0
  /\ killTimers' = killTimers - 1
  /\ IF process # 0
       THEN children' = kill(children, process, "SIGKILL")
       ELSE UNCHANGED children
  /\ ev' = Ev("killTimer", process, FALSE, FALSE, FALSE)
  /\ UNCHANGED <<process, isShuttingDown, restartTimers, restartWaits,
                 logBuffer>>

\* the callback of stop()'s setTimeout(..., 10000)
KillTimerFire ==
  /\ killTimers > 0
  /\ killTimers' = killTimers - 1
  /\ IF process # 0
       THEN /\ children' = kill(children, process, "SIGKILL")
            /\ process' = 0
       ELSE UNCHANGED <<process, children>>
  /\ ev' = Ev("killTimer", process, FALSE, FALSE, FALSE)
  /\ UNCHANGED <<isShuttingDown, restartTimers, restartWaits, logBuffer>>

\* setShuttingDown(b)
setShuttingDown(b) ==
  /\ isShuttingDown' = b

(***************************************************************************)
(* The environment of FFmpegService                                        *)
(***************************************************************************)
\* the OS process of child c ends (by itself or because of a signal)
ChildExit(c) ==
  /\ children[c].st = "running"
  /\ children' = [children EXCEPT ![c].st = "exited"]
  /\ ev' = Ev("exit", c, FALSE, FALSE, FALSE)
  /\ UNCHANGED <<process, isShuttingDown, restartTimers, killTimers,
                 restartWaits, logBuffer>>

\* every pending restart timer and restart() call can still spawn
RoomToSpawn == Occupied + restartTimers + restartWaits < MaxChildren

CallStart ==
  /\ process # 0 \/ RoomToSpawn
  /\ \E ok \in BOOLEAN : start(ok)
  /\ ev' = Ev("start", process', process = 0, FALSE, FALSE)
  /\ UNCHANGED <<isShuttingDown, restartTimers, killTimers, restartWaits>>

CallStop ==
  /\ process # 0 => killTimers < MaxKillTimers
  /\ stop
  /\ ev' = Ev("stop", process, FALSE, FALSE, FALSE)
  /\ UNCHANGED <<process, isShuttingDown, restartTimers, restartWaits,
                 logBuffer>>

\* restart() up to its await of the 500 ms pause
CallRestart ==
  /\ process # 0 => killTimers < MaxKillTimers
  /\ RoomToSpawn
  /\ stop
  /\ restartWaits' = restartWaits + 1
  /\ ev' = Ev("restart", process, FALSE, FALSE, FALSE)
  /\ UNCHANGED <<process, isShuttingDown, restartTimers, logBuffer>>

\* restart() after the pause: await this.start()
RestartResume ==
  /\ restartWaits > 0
  /\ restartWaits' = restartWaits - 1
  /\ \E ok \in BOOLEAN : start(ok)
  /\ ev' = Ev("restartResume", process', process = 0, FALSE, FALSE)
  /\ UNCHANGED <<isShuttingDown, restartTimers, killTimers>>

CallSetShuttingDown ==
  /\ \E b \in BOOLEAN : b # isShuttingDown /\ setShuttingDown(b)
  /\ ev' = Ev("setShuttingDown", 0, FALSE, FALSE, FALSE)
  /\ UNCHANGED <<process, children, restartTimers, killTimers, restartWaits,
                 logBuffer>>

\* the 'data' handlers that start() registers on stdout and stderr of
\* child c: output arrives until the pipes are closed
OnData(c) ==
  /\ children[c].st \in {"running", "exited"}
  /\ \E type \in {"stdout", "stderr"} :
       logBuffer' = addToLogBuffer(logBuffer, LogEntry(0, type, "output"))
  /\ ev' = Ev("data", c, FALSE, FALSE, FALSE)
  /\ UNCHANGED <<process, children, isShuttingDown, restartTimers, killTimers,
                 restartWaits>>

DataEvent == \E c \in ChildIds : OnData(c)

CloseEvent == \E c \in ChildIds : OnClose(c)

ErrorEvent == \E c \in ChildIds : OnError(c)

ExitEvent == \E c \in ChildIds : ChildExit(c)

\* the history kept beside a step of the supervisor.  killFor lists, per
\* pending setTimeout(..., 10000) of stop() and in the order of arming
\* (which is the order of firing), the child stop() signalled, 0 once the
\* 'close' of that child was delivered; since holds the children spawned
\* after restart() was called; early counts the pending 5 s timers that
\* were armed while restart() was in its 500 ms pause
Track ==
  LET closed == {c \in ChildIds :
                   children[c].st # "free" /\ children'[c].st = "free"}
      spawned == {c \in ChildIds :
                    children[c].st = "free" /\ children'[c].st # "free"}
      restart == restartWaits' > restartWaits
  IN track' =
       [killFor |->
          IF killTimers' > killTimers THEN Append(track.killFor, process)
          ELSE IF killTimers' < killTimers THEN Tail(track.killFor)
          ELSE [i \in 1..Len(track.killFor) |->
                  IF track.killFor[i] \in closed THEN 0
                  ELSE track.killFor[i]],
        since |->
          IF restart THEN {}
          ELSE (track.since \ closed)
                 \cup (IF track.restarted THEN spawned ELSE {}),
        restarted |-> track.restarted \/ restart,
        early |->
          IF restart THEN 0
          ELSE IF restartTimers' > restartTimers /\ restartWaits > 0
            THEN track.early + 1
          ELSE IF restartTimers' < restartTimers /\ track.early > 0
            THEN track.early - 1
          ELSE track.early]

(***************************************************************************)
(* The log ring under its own operations                                   *)
(***************************************************************************)
\* addToLogBuffer(type, message) of the service named by ring.  The
\* timestamp is the time of the call; it also tells entries apart.
AddToLogBuffer ==
  /\ Len(appended) < MaxAppends
  /\ LET entry == LogEntry(tick + 1, EntryType[ring], "m") IN
       /\ logBuffer' = IF ring = "ffmpeg"
                         THEN addToLogBuffer(logBuffer, entry)
                         ELSE ZmqAddToLogBuffer(logBuffer, entry)
       /\ delivered' = Notify(logListeners, entry, delivered)
       /\ appended' = Append(appended, entry)
  /\ tick' = tick + 1
  /\ UNCHANGED <<ring, logListeners, clearedAt, subs, unsubCalls>>

\* getLogs(): a copy of the buffer, [...this.logBuffer]
getLogs == [i \in 1..Len(logBuffer) |-> logBuffer[i]]

\* clearLogs()
ClearLogs ==
  /\ logBuffer # <<>>
  /\ logBuffer' = <<>>
  /\ clearedAt' = Len(appended)
  /\ UNCHANGED <<ring, logListeners, tick, appended, delivered, subs,
                 unsubCalls>>

\* onLog(cb): adds cb to the Set and returns a function that deletes it
onLog(cb) ==
  /\ logListeners' = SetAdd(logListeners, cb)
  /\ subs' = Append(subs, [cb |-> cb, reg |-> tick + 1])

OnLog ==
  /\ Len(subs) < MaxSubs
  /\ \E cb \in Callbacks : onLog(cb)
  /\ tick' = tick + 1
  /\ UNCHANGED <<logBuffer, ring, appended, clearedAt, delivered, unsubCalls>>

\* an unsubscribe function that deletes nothing
unsubscribe_noDelete(k) ==
  /\ UNCHANGED logListeners
  /\ unsubCalls' = unsubCalls \cup {[sub |-> k, at |-> tick + 1]}

\* the function returned by the k-th onLog call
unsubscribe(k) ==
  /\ logListeners' = SetDelete(logListeners, subs[k].cb)
  /\ unsubCalls' = unsubCalls \cup {[sub |-> k, at |-> tick + 1]}

Unsubscribe ==
  /\ Cardinality(unsubCalls) < MaxUnsubs
  /\ \E k \in 1..Len(subs) : unsubscribe(k)
  /\ tick' = tick + 1
  /\ UNCHANGED <<logBuffer, ring, appended, clearedAt, delivered, subs>>

\* the streamLogs connections
Clients == 1..MaxClients

\* the listener that the c-th streamLogs call passes to onLog
StreamCallback(c) == Cardinality(Callbacks) + c

\* the first message of streamLogs and the one of its keep-alive interval,
\* as objects before JSON.stringify
ControlMessage(type) == [type |-> type, timestamp |-> 0]

\* the log entries among the objects written to a response
LogsOf(out) == SelectSeq(out, LAMBDA w : w.type \notin {"connected", "heartbeat"})

\* a notification loop without try/catch: the first exception ends the loop
\* and leaves addToLogBuffer
RECURSIVE notifyListeners_noCatch(_, _, _, _)
notifyListeners_noCatch(listeners, entry, throwing, acc) ==
  IF listeners = <<>>
    THEN acc
    ELSE LET cb == Head(listeners)
             called == IF cb \in Callbacks
                         THEN [acc EXCEPT !.dl[cb] = Append(@, entry)]
                         ELSE [acc EXCEPT !.out[cb - Cardinality(Callbacks)] =
                                             Append(@, entry)]
         IN  IF cb \in throwing
               THEN [called EXCEPT !.escaped = TRUE]
               ELSE notifyListeners_noCatch(Tail(listeners), entry, throwing,
                                            called)

\* the notification loop of addToLogBuffer with listeners that may throw:
\* every listener of the Set is called with the entry in insertion order
\* (a callback of Callbacks records it, the one of a streamLogs connection
\* writes it to its response); an exception of a listener is caught and
\* logged with logger.warn, and the loop goes on.  throwing is the set of
\* callbacks that throw at this call; acc collects what the loop did.
RECURSIVE notifyListeners(_, _, _, _)
notifyListeners(listeners, entry, throwing, acc) ==
  IF listeners = <<>>
    THEN acc
    ELSE LET cb == Head(listeners)
             called == IF cb \in Callbacks
                         THEN [acc EXCEPT !.dl[cb] = Append(@, entry)]
                         ELSE [acc EXCEPT !.out[cb - Cardinality(Callbacks)] =
                                             Append(@, entry)]
             caught == IF cb \in throwing
                         THEN [called EXCEPT !.warned = @ + 1]
                         ELSE called
         IN  notifyListeners(Tail(listeners), entry, throwing, caught)

\* addToLogBuffer(type, message) called by a producer (an output or exit
\* handler of the child, sendInstruction) while any of the subscribed
\* callbacks may throw
Produce ==
  /\ Len(appended) < MaxAppends
  /\ \E throwing \in SUBSET Callbacks :
       LET entry == LogEntry(tick + 1, EntryType[ring], "m")
           r == notifyListeners(logListeners, entry, throwing,
                                [dl |-> delivered, out |-> stream.out,
                                 warned |-> 0, escaped |-> FALSE])
       IN  /\ logBuffer' = IF ring = "ffmpeg"
                             THEN addToLogBuffer(logBuffer, entry)
                             ELSE ZmqAddToLogBuffer(logBuffer, entry)
           /\ delivered' = r.dl
           /\ appended' = Append(appended, entry)
           /\ stream' = [stream EXCEPT
                           !.out = r.out,
                           !.warned = r.warned,
                           !.escaped = r.escaped,
                           !.threw = {cb \in throwing :
                                        IndexOf(logListeners, cb) # 0}]
  /\ tick' = tick + 1
  /\ UNCHANGED <<ring, logListeners, clearedAt, subs, unsubCalls>>

\* StreamController.streamLogs(req, res) for the c-th connection, one
\* synchronous run: the 'connected' message, the entries of getLogs(), then
\* onLog; the keep-alive interval is armed
StreamLogs(c) ==
  /\ ring = "ffmpeg"
  /\ stream.st[c] = "idle"
  /\ onLog(StreamCallback(c))
  /\ stream' = [stream EXCEPT
                  !.st[c] = "open",
                  !.out[c] = <<ControlMessage("connected")>> \o getLogs,
                  !.snap[c] = logBuffer,
                  !.from[c] = Len(appended),
                  !.unsub[c] = Len(subs) + 1]
  /\ tick' = tick + 1
  /\ UNCHANGED <<logBuffer, ring, appended, clearedAt, delivered, unsubCalls>>

\* the two 'close' handlers of the request of the c-th connection:
\* unsubscribe(), clearInterval(keepAlive)
StreamClose(c) ==
  /\ stream.st[c] = "open"
  /\ unsubscribe(stream.unsub[c])
  /\ stream' = [stream EXCEPT !.st[c] = "closed", !.to[c] = Len(appended)]
  /\ tick' = tick + 1
  /\ UNCHANGED <<logBuffer, ring, appended, clearedAt, delivered, subs>>

\* the keep-alive interval of the c-th connection fires
KeepAlive(c) ==
  /\ stream.st[c] = "open"
  /\ stream.beats < MaxBeats
  /\ stream' = [stream EXCEPT
                  !.out[c] = Append(@, ControlMessage("heartbeat")),
                  !.beats = @ + 1]
  /\ UNCHANGED <<logBuffer, logVars>>

StreamInit ==
  stream = [st |-> [c \in Clients |-> "idle"],
            out |-> [c \in Clients |-> <<>>],
            snap |-> [c \in Clients |-> <<>>],
            from |-> [c \in Clients |-> 0],
            to |-> [c \in Clients |-> 0],
            unsub |-> [c \in Clients |-> 0],
            beats |-> 0,
            warned |-> 0,
            escaped |-> FALSE,
            threw |-> {}]

(***************************************************************************)
(* validateRateLimit                                                       *)
(***************************************************************************)
windowMs == RateWindow

maxRequests == RateMax

\* the values of req.ip || req.connection.remoteAddress
ClientIps == {"10.0.0.1", "10.0.0.2"}

\* Array.prototype.filter(timestamp => now - timestamp < windowMs)
ValidRequests(clientRequests, now) ==
  SelectSeq(clientRequests, LAMBDA timestamp : now - timestamp < windowMs)

\* requests.set(key, value) on the Map, as a function on the keys it holds
MapSet(map, key, value) ==
  [k \in DOMAIN map \cup {key} |-> IF k = key THEN value ELSE map[k]]

\* a limiter that records the request before it tests the limit, so that
\* refused requests are counted too
rateLimit_countsRefused(requests, clientIp, now) ==
  LET clientRequests == IF clientIp \in DOMAIN requests
                          THEN requests[clientIp] ELSE <<>>
      validRequests == ValidRequests(clientRequests, now)
  IN  [requests |-> MapSet(requests, clientIp, Append(validRequests, now)),
       status |-> IF Len(validRequests) >= maxRequests THEN 429 ELSE 200]

\* the middleware returned by validateRateLimit() for one request: the Map
\* it leaves and its answer, 429 or 200 for next()
rateLimit(requests, clientIp, now) ==
  LET clientRequests == IF clientIp \in DOMAIN requests
                          THEN requests[clientIp] ELSE <<>>
      validRequests == ValidRequests(clientRequests, now)
  IN  IF Len(validRequests) >= maxRequests
        THEN [requests |-> MapSet(requests, clientIp, validRequests),
              status |-> 429]
        ELSE [requests |-> MapSet(requests, clientIp,
                                  Append(validRequests, now)),
              status |-> 200]

\* a request of clientIp passes through the middleware
RateRequest(clientIp) ==
  /\ rate.n < MaxArrivals
  /\ LET r == rateLimit(rate.requests, clientIp, rate.now) IN
       rate' = [rate EXCEPT
                 !.requests = r.requests,
                 !.n = @ + 1,
                 !.res = [ip |-> clientIp, status |-> r.status],
                 !.admitted[clientIp] =
                    IF r.status = 200 THEN Append(@, rate.now) ELSE @,
                 !.refused[clientIp] = @ \/ r.status = 429]

\* Date.now() advances
ClockTick ==
  /\ rate.now < MaxTime
  /\ rate' = [rate EXCEPT !.now = @ + 1]

RateInit ==
  rate = [requests |-> <<>>,
          now |-> 0,
          n |-> 0,
          res |-> [ip |-> "", status |-> 0],
          admitted |-> [ip \in ClientIps |-> <<>>],
          refused |-> [ip \in ClientIps |-> FALSE]]

rateFrozen == <<supVars, logVars, appVars, chanVars, fifoVars, hlsVars,
                argVars, initVars, trackVars, stream>>

RateNext ==
  \/ (\E clientIp \in ClientIps : RateRequest(clientIp)) /\ UNCHANGED rateFrozen
  \/ ClockTick /\ UNCHANGED rateFrozen

SideInit == StreamInit /\ RateInit

LogInit ==
  /\ SideInit
  /\ logListeners = <<>>
  /\ tick = 0
  /\ appended = <<>>
  /\ clearedAt = 0
  /\ delivered = [cb \in Callbacks |-> <<>>]
  /\ subs = <<>>
  /\ unsubCalls = {}

(***************************************************************************)
(* ZmqService: initialize and close                                        *)
(***************************************************************************)
\* this.addToLogBuffer(type, message) of ZmqService
ZmqLog(type, message) ==
  /\ zmqLogBuffer' = ZmqAddToLogBuffer(zmqLogBuffer,
                       LogEntry(0, type, message))
  /\ zmqAppended' = zmqAppended + 1

\* initialize() up to its await: this.socket = new zmq.Push(); bind(...)
ZmqInitializeCall ==
  /\ zmqSocket' = "unbound"

\* initialize() after the await: ok says whether bind() resolved
ZmqInitializeSettled(ok) ==
  IF ok
    THEN /\ zmqSocket' = "bound"
         /\ ZmqLog("system", "Socket bound")
         /\ zmqInitDone' = TRUE
    ELSE /\ ZmqLog("error", "Initialization failed")
         /\ UNCHANGED <<zmqSocket, zmqInitDone>>

\* isConnected()
isConnected == zmqSocket # "null"

\* a close() that calls socket.close() whether or not a socket is held
ZmqCloseCall_noGuard ==
  /\ zmqClosePending' = TRUE

\* close() up to its await: socket.close() is called when a socket is held
ZmqCloseCall ==
  /\ zmqClosePending' = (zmqSocket # "null")

\* close() after the await: ok says whether socket.close() resolved
ZmqCloseSettled(ok) ==
  /\ zmqClosePending
  /\ zmqClosePending' = FALSE
  /\ IF ok
       THEN /\ zmqSocket' = "null"
            /\ ZmqLog("system", "Socket closed")
       ELSE /\ ZmqLog("error", "Close failed")
            /\ UNCHANGED zmqSocket

\* the commands passed to sendInstruction
ZmqCommands == {"drawtext reinit text=A", "overlay x 10"}

\* what a call on ZmqService did: ret is the value it returned ("pending"
\* while it is suspended at its await, "void" for close), threw says that
\* it ended with an exception
ZmqEv(op, command, ret, threw) ==
  [op |-> op, command |-> command, ret |-> ret, threw |-> threw]

\* a sendInstruction that does not look at this.socket
sendInstruction_noSocketCheck(command) ==
  /\ zmqPending' = Append(zmqPending, command)
  /\ zmqEv' = ZmqEv("sendInstruction", command, "pending", FALSE)
  /\ UNCHANGED <<zmqLogBuffer, zmqAppended>>

\* sendInstruction(command) up to its return or its await of socket.send
sendInstruction(command) ==
  IF zmqSocket = "null"
    THEN /\ ZmqLog("error", "Socket not initialized")
         /\ zmqEv' = ZmqEv("sendInstruction", command, "false", FALSE)
         /\ UNCHANGED zmqPending
    ELSE /\ zmqPending' = Append(zmqPending, command)
         /\ zmqEv' = ZmqEv("sendInstruction", command, "pending", FALSE)
         /\ UNCHANGED <<zmqLogBuffer, zmqAppended>>

\* s without its i-th element
RemoveAt(s, i) == SubSeq(s, 1, i - 1) \o SubSeq(s, i + 1, Len(s))

\* a sendInstruction that reports every settled send as sent
sendSettled_alwaysTrue(i, ok) ==
  /\ zmqPending' = RemoveAt(zmqPending, i)
  /\ IF ok
       THEN ZmqLog("sent", zmqPending[i])
       ELSE ZmqLog("error", "Send failed")
  /\ zmqEv' = ZmqEv("sendInstruction", zmqPending[i], "true", FALSE)

\* sendInstruction after its await: ok says whether the promise of the i-th
\* pending socket.send resolved; the catch turns a rejection into false
sendSettled(i, ok) ==
  /\ zmqPending' = RemoveAt(zmqPending, i)
  /\ IF ok
       THEN /\ ZmqLog("sent", zmqPending[i])
            /\ zmqEv' = ZmqEv("sendInstruction", zmqPending[i], "true", FALSE)
       ELSE /\ ZmqLog("error", "Send failed")
            /\ zmqEv' = ZmqEv("sendInstruction", zmqPending[i], "false", FALSE)

(***************************************************************************)
(* FifoService: the backing objects of the input channels                  *)
(***************************************************************************)
\* channel 0 is CONFIG.fifos.content, channel k + 1 is CONFIG.fifos.layers[k]
Channels == 0..MaxLayers

\* the channels of this configuration
Configured == 0..layerCount

\* kind: "none" (nothing at the path), "fifo" or "file" (a regular file)
\* data: what the object holds, for a pipe what was written into it
NoObj == [kind |-> "none", data |-> <<>>]

NewObj(kind) == [kind |-> kind, data |-> <<>>]

\* the paths handed to writeContent / writeLayer; fs.existsSync is true for
\* the sources and false for Missing
Sources == {"A.mp4", "B.mp4"}

Missing == "missing.mp4"

Paths == Sources \cup {Missing}

existsSync(path) == path \in Sources \cup mediaFiles

\* the number of chunks in which a source is read and piped
Chunks == [p \in Sources |-> IF p = "A.mp4" THEN 2 ELSE 1]

\* `file '${path.resolve(filePath)}'\n`: one line, written as one chunk
ConcatEntry(path) == <<"file", path, "\n">>

\* what a call on FifoService did: ret is what it returned, attempted the
\* channels it called fs.unlinkSync for, threw that it ended with an
\* exception
FifoEv(op, path, index, ret, attempted, threw) ==
  [op |-> op, path |-> path, index |-> index, ret |-> ret,
   attempted |-> attempted, threw |-> threw]

\* a createSingle that recreates whatever it finds
createSingle_alwaysRecreate(o) ==
  IF ~canUseFifos
    THEN NewObj("file")
    ELSE IF mkfifoWorks THEN NewObj("fifo") ELSE NewObj("file")

\* createSingle(fifoPath) applied to the object o at that path: an object
\* that is a FIFO (or, without FIFO support, any object) is left, another
\* one is unlinked; then mkfifo, or writeFileSync(path, '') without FIFO
\* support and as the fallback of a failed mkfifo
createSingle(o) ==
  IF o.kind # "none" /\ (~canUseFifos \/ o.kind = "fifo")
    THEN o
    ELSE IF ~canUseFifos
           THEN NewObj("file")
           ELSE IF mkfifoWorks THEN NewObj("fifo") ELSE NewObj("file")

\* the channels for which createSingle calls fs.unlinkSync
createUnlinks(os) ==
  {ch \in Configured : os[ch].kind # "none" /\ canUseFifos
                         /\ os[ch].kind # "fifo"}

\* createAll() applied to the objects os: createSingle for the content
\* channel and for every configured layer
createAll(os) ==
  [ch \in Channels |-> IF ch \in Configured THEN createSingle(os[ch])
                                            ELSE os[ch]]

\* the streams left once the objects of the channels chs are unlinked: a
\* stream that has the object open keeps writing to the unlinked object,
\* which no path names any more
DropOpen(strs, chs) ==
  SelectSeq(strs, LAMBDA s : ~(s.ch \in chs /\ s.st = "open"))

\* the sources of the streams of channel ch, in the order of their calls
RECURSIVE PendingSources(_, _)
PendingSources(strs, ch) ==
  IF strs = <<>>
    THEN <<>>
    ELSE IF Head(strs).ch = ch
           THEN <<Head(strs).src>> \o PendingSources(Tail(strs), ch)
           ELSE PendingSources(Tail(strs), ch)

\* the source the object of channel ch is to hold once the streams are done
LastPending(strs, ch) ==
  LET p == PendingSources(strs, ch)
  IN  IF p = <<>> THEN "none" ELSE p[Len(p)]

\* the bookkeeping of the calls after the objects of chs were unlinked
Unlinked(chs) ==
  /\ streams' = DropOpen(streams, chs)
  /\ contentCalls' = IF 0 \in chs THEN PendingSources(streams', 0)
                                  ELSE contentCalls
  /\ layerCalls' = [ch \in Channels |->
                      IF ch \in chs THEN LastPending(streams', ch)
                                    ELSE layerCalls[ch]]

\* createAll(), as HLSStreamerApp.initializeServices awaits it
CreateAll ==
  /\ objs' = createAll(objs)
  /\ Unlinked(createUnlinks(objs))
  /\ fifoEv' = FifoEv("createAll", "", -1, TRUE, createUnlinks(objs), FALSE)
  /\ UNCHANGED <<layerCount, canUseFifos, mkfifoWorks, activeFifos, uncaught,
                 nCalls>>

\* the channels cleanup() calls fs.unlinkSync for when the calls for the
\* channels in failing throw: the content channel, then the layers in
\* order, each only if fs.existsSync; the first throw leaves the try block
cleanupAttempts(os, failing) ==
  LET present == {ch \in Configured : os[ch].kind # "none"}
      thrown == present \cap failing
  IN  IF thrown = {}
        THEN present
        ELSE {ch \in present : ch <= Min(thrown)}

\* cleanup(): fd.end() on every tracked handle (each in its own try),
\* activeFifos.clear(), then the unlinks in one try block
cleanup(failing) ==
  LET tried == cleanupAttempts(objs, failing)
      gone == tried \ failing
  IN  /\ activeFifos' = {}
      /\ objs' = [ch \in Channels |-> IF ch \in gone THEN NoObj ELSE objs[ch]]
      /\ Unlinked(gone)
      /\ fifoEv' = FifoEv("cleanup", "", -1, TRUE, tried, FALSE)

Cleanup ==
  /\ \E failing \in SUBSET Configured : cleanup(failing)
  /\ UNCHANGED <<layerCount, canUseFifos, mkfifoWorks, uncaught, nCalls>>

\* a stream made by fs.createWriteStream: mode is the flag it opens with,
\* st is "new" until its open has completed, done counts the chunks written
Stream(ch, mode, src) ==
  [ch |-> ch, mode |-> mode, src |-> src, st |-> "new", done |-> 0]

\* the chunks the stream s writes before it ends
StreamSize(s) == IF s.ch = 0 THEN 1 ELSE Chunks[s.src]

\* a writeContent that does not test fs.existsSync
writeContent_noExistsCheck(filePath) ==
  /\ streams' = Append(streams, Stream(0, "a", filePath))
  /\ contentCalls' = Append(contentCalls, filePath)
  /\ fifoEv' = FifoEv("writeContent", filePath, -1, TRUE, {}, FALSE)

\* writeContent(filePath): the stream is created, write() and end() are
\* queued on it, and true is returned; the open and the write happen later
writeContent(filePath) ==
  IF ~existsSync(filePath)
    THEN /\ fifoEv' = FifoEv("writeContent", filePath, -1, FALSE, {}, FALSE)
         /\ UNCHANGED <<streams, contentCalls>>
    ELSE /\ streams' = Append(streams, Stream(0, "a", filePath))
         /\ contentCalls' = Append(contentCalls, filePath)
         /\ fifoEv' = FifoEv("writeContent", filePath, -1, TRUE, {}, FALSE)

\* a writeLayer whose range check accepts index = layers.length
writeLayer_offByOne(index, filePath) ==
  IF index < 0 \/ index > layerCount \/ index >= MaxLayers
       \/ ~existsSync(filePath)
    THEN /\ fifoEv' = FifoEv("writeLayer", filePath, index, FALSE, {}, FALSE)
         /\ UNCHANGED <<streams, layerCalls>>
    ELSE /\ streams' = Append(streams, Stream(index + 1, "w", filePath))
         /\ layerCalls' = [layerCalls EXCEPT ![index + 1] = filePath]
         /\ fifoEv' = FifoEv("writeLayer", filePath, index, TRUE, {}, FALSE)

\* writeLayer(index, filePath): the source is piped into a stream opened
\* with the default flag 'w', and true is returned at once
writeLayer(index, filePath) ==
  IF index < 0 \/ index >= layerCount \/ ~existsSync(filePath)
    THEN /\ fifoEv' = FifoEv("writeLayer", filePath, index, FALSE, {}, FALSE)
         /\ UNCHANGED <<streams, layerCalls>>
    ELSE /\ streams' = Append(streams, Stream(index + 1, "w", filePath))
         /\ layerCalls' = [layerCalls EXCEPT ![index + 1] = filePath]
         /\ fifoEv' = FifoEv("writeLayer", filePath, index, TRUE, {}, FALSE)

\* the indices handed to writeLayer
Indices == (-1)..MaxLayers

WriteContent ==
  /\ uncaught = -1
  /\ nCalls < MaxCalls
  /\ nCalls' = nCalls + 1
  /\ \E filePath \in Paths : writeContent(filePath)
  /\ UNCHANGED <<layerCount, canUseFifos, mkfifoWorks, objs, activeFifos,
                 uncaught, layerCalls>>

WriteLayer ==
  /\ uncaught = -1
  /\ nCalls < MaxCalls
  /\ nCalls' = nCalls + 1
  /\ \E index \in Indices : \E filePath \in Paths : writeLayer(index, filePath)
  /\ UNCHANGED <<layerCount, canUseFifos, mkfifoWorks, objs, activeFifos,
                 uncaught, contentCalls>>

\* the open of a stream completes: flag 'a' and flag 'w' both create a
\* regular file when nothing is at the path, flag 'w' truncates a file
openObj(o, mode) ==
  IF o.kind = "none" \/ (o.kind = "file" /\ mode = "w")
    THEN NewObj("file")
    ELSE o

\* the open of the i-th stream fails: the stream emits 'error', no listener
\* is registered on it, so the error is thrown as an uncaught exception
StreamOpenFails(i) ==
  /\ streams[i].st = "new"
  /\ streams' = RemoveAt(streams, i)
  /\ uncaught' = streams[i].ch
  /\ fifoEv' = FifoEv("streamError", streams[i].src, streams[i].ch - 1, FALSE,
                      {}, TRUE)
  /\ UNCHANGED <<layerCount, canUseFifos, mkfifoWorks, objs, activeFifos,
                 nCalls, contentCalls, layerCalls>>

\* the open of the i-th stream succeeds; the opens of streams created one
\* after the other are separate requests and complete in any order
StreamOpens(i) ==
  /\ streams[i].st = "new"
  /\ streams' = [streams EXCEPT ![i].st = "open"]
  /\ objs' = [objs EXCEPT ![streams[i].ch] = openObj(@, streams[i].mode)]
  /\ fifoEv' = FifoEv("streamOpen", streams[i].src, streams[i].ch - 1, TRUE,
                      {}, FALSE)
  /\ UNCHANGED <<layerCount, canUseFifos, mkfifoWorks, activeFifos, uncaught,
                 nCalls, contentCalls, layerCalls>>

\* a file after a write of b at position pos (the first position is 1); a
\* write behind the end leaves a hole
Put(data, pos, b) ==
  [k \in 1..(IF pos > Len(data) THEN pos ELSE Len(data)) |->
     IF k = pos THEN b
     ELSE IF k <= Len(data) THEN data[k] ELSE "hole"]

\* the object after the stream s has written its next chunk: a pipe and a
\* file opened with 'a' take it at their end, a file opened with 'w' at
\* the position of the stream, which counts the stream's own writes
written(o, s) ==
  IF s.ch = 0
    THEN [o EXCEPT !.data = Append(@, ConcatEntry(s.src))]
    ELSE IF o.kind = "file"
           THEN [o EXCEPT !.data = Put(@, s.done + 1, <<s.src, s.done + 1>>)]
           ELSE [o EXCEPT !.data = Append(@, <<s.src, s.done + 1>>)]

\* the i-th stream writes its next chunk; after the last one it is closed
StreamWrites(i) ==
  /\ streams[i].st = "open"
  /\ objs' = [objs EXCEPT ![streams[i].ch] = written(@, streams[i])]
  /\ streams' = IF streams[i].done + 1 = StreamSize(streams[i])
                  THEN RemoveAt(streams, i)
                  ELSE [streams EXCEPT ![i].done = @ + 1]
  /\ fifoEv' = FifoEv("streamWrite", streams[i].src, streams[i].ch - 1, TRUE,
                      {}, FALSE)
  /\ UNCHANGED <<layerCount, canUseFifos, mkfifoWorks, activeFifos, uncaught,
                 nCalls, contentCalls, layerCalls>>

StreamOpen == \E i \in 1..Len(streams) : uncaught = -1 /\ StreamOpens(i)

StreamError == \E i \in 1..Len(streams) : uncaught = -1 /\ StreamOpenFails(i)

StreamWrite == \E i \in 1..Len(streams) : uncaught = -1 /\ StreamWrites(i)

\* the constructor, on a platform (fifos, mkfifo) configured with n layers
FifoInit(n, fifos, mkfifo) ==
  /\ layerCount = n
  /\ canUseFifos = fifos
  /\ mkfifoWorks = mkfifo
  /\ activeFifos = {}
  /\ streams = <<>>
  /\ uncaught = -1
  /\ nCalls = 0
  /\ contentCalls = <<>>
  /\ layerCalls = [ch \in Channels |-> "none"]
  /\ fifoEv = FifoEv("constructor", "", -1, TRUE, {}, FALSE)

(***************************************************************************)
(* HLSStreamerApp.start(), one action per await                            *)
(***************************************************************************)
Running == hostExit = -1

\* process.exit(code)
Exit(code) == hostExit' = code

supIdle == <<process, children, isShuttingDown, restartTimers, killTimers,
             restartWaits, logBuffer, ev>>

\* a start() that arms the 2 s timer before the services are initialized
AppBegin_armFirst(ok) ==
  /\ Running
  /\ appPc = "new"
  /\ IF ok
       THEN appPc' = "createAll" /\ fifosExist' = TRUE /\ startTimer' = TRUE
            /\ UNCHANGED hostExit
       ELSE appPc' = "failed" /\ Exit(1) /\ UNCHANGED <<fifosExist, startTimer>>
  /\ UNCHANGED <<zmqSocket, zmqInitDone, zmqLogBuffer, zmqAppended, zmqClosePending,
                 cleanupInterval, sdFlag, sdPc, sdTrace>>
  /\ UNCHANGED supIdle

\* validateConfig(), setupExpress(), hlsService.setupDirectory() and the
\* call of fifoService.createAll(); ok is false when one of them throws
AppBegin(ok) ==
  /\ Running
  /\ appPc = "new"
  /\ IF ok
       THEN appPc' = "createAll" /\ fifosExist' = TRUE /\ UNCHANGED hostExit
       ELSE appPc' = "failed" /\ Exit(1) /\ UNCHANGED fifosExist
  /\ UNCHANGED <<zmqSocket, zmqInitDone, zmqLogBuffer, zmqAppended, zmqClosePending,
                 startTimer, cleanupInterval, sdFlag, sdPc, sdTrace>>
  /\ UNCHANGED supIdle

\* createAll() settled; on success zmqService.initialize() is called
AppFifosCreated(ok) ==
  /\ Running
  /\ appPc = "createAll"
  /\ IF ok
       THEN appPc' = "bind" /\ ZmqInitializeCall /\ UNCHANGED hostExit
       ELSE appPc' = "failed" /\ Exit(1) /\ UNCHANGED zmqSocket
  /\ UNCHANGED <<zmqInitDone, zmqLogBuffer, zmqAppended, zmqClosePending, startTimer,
                 cleanupInterval, fifosExist, sdFlag, sdPc, sdTrace>>
  /\ UNCHANGED supIdle

\* bind() settled; on success startCleanupScheduler() and the listen call
AppZmqInitialized(ok) ==
  /\ Running
  /\ appPc = "bind"
  /\ ZmqInitializeSettled(ok)
  /\ IF ok
       THEN appPc' = "listen" /\ cleanupInterval' = TRUE /\ UNCHANGED hostExit
       ELSE appPc' = "failed" /\ Exit(1) /\ UNCHANGED cleanupInterval
  /\ UNCHANGED <<zmqClosePending, startTimer, fifosExist, sdFlag, sdPc,
                 sdTrace>>
  /\ UNCHANGED supIdle

\* startHttpServer() settled; on success initializeContent() is called
AppListening(ok) ==
  /\ Running
  /\ appPc = "listen"
  /\ IF ok
       THEN appPc' = "initContent" /\ UNCHANGED hostExit
       ELSE appPc' = "failed" /\ Exit(1)
  /\ UNCHANGED <<zmqSocket, zmqInitDone, zmqLogBuffer, zmqAppended, zmqClosePending,
                 startTimer, cleanupInterval, fifosExist, sdFlag, sdPc,
                 sdTrace>>
  /\ UNCHANGED supIdle

\* initializeContent() returned: the 2 s timer is armed, the services are
\* registered with the shutdown handler, the signal handlers installed
AppContentInitialized ==
  /\ Running
  /\ appPc = "initContent"
  /\ appPc' = "started"
  /\ startTimer' = TRUE
  /\ UNCHANGED <<hostExit, zmqSocket, zmqInitDone, zmqLogBuffer, zmqAppended,
                 zmqClosePending, cleanupInterval, fifosExist, sdFlag, sdPc,
                 sdTrace>>
  /\ UNCHANGED supIdle

\* the callback of the 2 s timer: await this.ffmpegService.start()
StartupTimerFire ==
  /\ Running
  /\ startTimer
  /\ startTimer' = FALSE
  /\ \E ok \in BOOLEAN : start(ok)
  /\ ev' = Ev("start", process', process = 0, FALSE, FALSE)
  /\ UNCHANGED <<isShuttingDown, restartTimers, killTimers, restartWaits>>
  /\ UNCHANGED <<appPc, hostExit, zmqSocket, zmqInitDone, zmqLogBuffer, zmqAppended,
                 zmqClosePending, cleanupInterval, fifosExist, sdFlag, sdPc,
                 sdTrace>>

(***************************************************************************)
(* ShutdownHandler                                                         *)
(***************************************************************************)
\* a gracefulShutdown that does not test its flag: every trigger starts the
\* sequence from its beginning
GracefulShutdown_noFlagTest ==
  /\ Running
  /\ appPc = "started"
  /\ sdFlag' = TRUE /\ sdPc' = "stopHttp" /\ UNCHANGED hostExit
  /\ UNCHANGED <<appPc, zmqSocket, zmqInitDone, zmqLogBuffer, zmqAppended, zmqClosePending,
                 startTimer, cleanupInterval, fifosExist, sdTrace>>
  /\ UNCHANGED supIdle

\* gracefulShutdown(signal), called by the SIGINT, SIGTERM and
\* uncaughtException handlers, up to its await of stopHttpServer()
GracefulShutdown ==
  /\ Running
  /\ appPc = "started"
  /\ IF sdFlag
       THEN Exit(1) /\ UNCHANGED <<sdFlag, sdPc>>
       ELSE sdFlag' = TRUE /\ sdPc' = "stopHttp" /\ UNCHANGED hostExit
  /\ UNCHANGED <<appPc, zmqSocket, zmqInitDone, zmqLogBuffer, zmqAppended, zmqClosePending,
                 startTimer, cleanupInterval, fifosExist, sdTrace>>
  /\ UNCHANGED supIdle

\* a shutdownServices that stops the child before it sets the flag
shutdownServices_stopFirst ==
  /\ isShuttingDown' = TRUE
  /\ stop
  /\ ZmqCloseCall
  /\ fifosExist' = FALSE
  /\ cleanupInterval' = FALSE
  /\ sdTrace' = sdTrace \o <<"ffmpeg.stop", "ffmpeg.setShuttingDown",
                             "zmq.close", "fifo.cleanup",
                             "hls.stopCleanupScheduler", "hls.cleanupAll">>

\* shutdownServices() up to its await of Promise.all: the loop over the one
\* registered service object
shutdownServices ==
  /\ isShuttingDown' = TRUE
  /\ stop
  /\ ZmqCloseCall
  /\ fifosExist' = FALSE
  /\ cleanupInterval' = FALSE
  /\ sdTrace' = sdTrace \o <<"ffmpeg.setShuttingDown", "ffmpeg.stop",
                             "zmq.close", "fifo.cleanup",
                             "hls.stopCleanupScheduler", "hls.cleanupAll">>

\* stopHttpServer() resolved (close callback or its 5 s timer):
\* gracefulShutdown goes on with shutdownServices()
HttpStopped ==
  /\ Running
  /\ sdPc = "stopHttp"
  /\ sdPc' = "awaitAll"
  /\ shutdownServices
  /\ ev' = Ev("stop", process, FALSE, FALSE, FALSE)
  /\ UNCHANGED <<process, restartTimers, restartWaits, logBuffer>>
  /\ UNCHANGED <<appPc, hostExit, zmqSocket, zmqInitDone, zmqLogBuffer, zmqAppended,
                 startTimer, sdFlag>>

\* the promise of socket.close() settled: close() runs to its end
ZmqClosed ==
  /\ Running
  /\ \E ok \in BOOLEAN :
       /\ ZmqCloseSettled(ok)
       /\ sdTrace' = Append(sdTrace,
                       IF ok THEN "zmq.closed" ELSE "zmq.closeFailed")
  /\ UNCHANGED <<appPc, hostExit, zmqInitDone, startTimer, cleanupInterval,
                 fifosExist, sdFlag, sdPc>>
  /\ UNCHANGED supIdle

\* Promise.all resolved: shutdownServices returns, process.exit(0)
ShutdownDone ==
  /\ Running
  /\ sdPc = "awaitAll"
  /\ ~zmqClosePending
  /\ sdPc' = "done"
  /\ Exit(0)
  /\ UNCHANGED <<appPc, zmqSocket, zmqInitDone, zmqLogBuffer, zmqAppended, zmqClosePending,
                 startTimer, cleanupInterval, fifosExist, sdFlag, sdTrace>>
  /\ UNCHANGED supIdle

(***************************************************************************)
(* HlsService: the output directory, the retention pass, the scheduler     *)
(***************************************************************************)
\* the numbers of CONFIG.hls.segmentPattern 'stream_%03d.ts'
SegmentNumbers == <<"000", "001", "002", "003", "004", "005", "006">>

\* a file name is the sequence of its parts: "stream_" "001" ".ts"
Segment(k) == <<"stream_", SegmentNumbers[k], ".ts">>

Segments == {Segment(k) : k \in 1..MaxSegments}

\* the other files of CONFIG.hls.outputDir: the playlist of ffmpeg and the
\* temporary file it is renamed from, the placeholder initializeContent()
\* generates there, and a transport stream that ffmpeg did not write
Others ==
  {<<"stream", ".m3u8">>, <<"stream", ".m3u8", ".tmp">>, <<"blank", ".mp4">>,
   <<"intro", ".ts">>}

FileNames == Segments \cup Others

endsWith(f, suffix) == f[Len(f)] = suffix

startsWith(f, prefix) == f[1] = prefix

\* files.filter(f => f.endsWith('.ts') && f.startsWith('stream_'))
segmentFilter(files) ==
  {f \in files : endsWith(f, ".ts") /\ startsWith(f, "stream_")}

\* a retention pass that keeps only as many segments as the playlist lists
keepCount_playlistOnly == playlistSize

\* const keepCount = CONFIG.hls.playlistSize + 2
keepCount == playlistSize + 2

\* fs.readdirSync(CONFIG.hls.outputDir): the names, in no particular order
readdirSync(dir) == {f \in FileNames : dir[f] # 0}

Range(s) == {s[i] : i \in 1..Len(s)}

\* segmentsWithStats.sort((a, b) => a.mtime - b.mtime): oldest first; files
\* of equal mtime keep the order readdirSync listed them in, which is any
RECURSIVE sortByMtime(_, _)
sortByMtime(names, dir) ==
  IF names = {} THEN {<<>>}
  ELSE UNION {{<<f>> \o s : s \in sortByMtime(names \ {f}, dir)} :
                f \in {g \in names : \A h \in names : dir[g] <= dir[h]}}

\* a call on HlsService: what it returned (count is the number returned by
\* getCurrentSegmentCount, -1 for the other calls), whether it threw, what
\* it found and the files whose unlinkSync threw
HlsEv(op, ret, count, threw, failed) ==
  [op |-> op, ret |-> ret, count |-> count, threw |-> threw,
   before |-> hlsDir, readable |-> dirReadable, failed |-> failed]

\* the record of a pass of cleanupOldSegments()
NewPass(by) ==
  [pc |-> "idle", by |-> by, readable |-> dirReadable, before |-> hlsDir,
   listed |-> {}, todo |-> <<>>, selected |-> {}, deleted |-> {},
   warned |-> {}, failed |-> {}, aborted |-> FALSE, writes |-> 0,
   afterUnreadable |-> FALSE]

\* a pass whose readdirSync is not inside the try block
passList_noCatch(by) ==
  IF ~dirReadable
  THEN /\ pass' = [NewPass(by) EXCEPT !.aborted = FALSE]
       /\ hlsEv' = HlsEv("cleanupOldSegments", "none", -1, TRUE, {})
  ELSE /\ pass' = [NewPass(by) EXCEPT
                     !.listed = segmentFilter(readdirSync(hlsDir))]
       /\ hlsEv' = HlsEv("cleanupOldSegments", "void", -1, FALSE, {})

\* cleanupOldSegments() up to `if (segments.length > keepCount)`: a
\* readdirSync that throws is caught by the outer catch, which warns
passList(by) ==
  LET segments == segmentFilter(readdirSync(hlsDir))
      fresh == [NewPass(by) EXCEPT
                  !.afterUnreadable = pass.aborted /\ ~pass.readable]
  IN IF ~dirReadable
     THEN /\ pass' = [fresh EXCEPT !.aborted = TRUE]
          /\ hlsEv' = HlsEv("cleanupOldSegments", "void", -1, FALSE, {})
     ELSE IF Cardinality(segments) > keepCount
     THEN /\ pass' = [fresh EXCEPT !.pc = "stat", !.listed = segments]
          /\ hlsEv' = HlsEv("cleanupOldSegments", "running", -1, FALSE, {})
     ELSE /\ pass' = [fresh EXCEPT !.listed = segments]
          /\ hlsEv' = HlsEv("cleanupOldSegments", "void", -1, FALSE, {})

\* a pass begins: cleanupOldSegments() is called, by the timer or directly
PassList(by) ==
  /\ pass.pc = "idle"
  /\ nHlsCalls < MaxHlsCalls
  /\ nHlsCalls' = nHlsCalls + 1
  /\ passList(by)
  /\ UNCHANGED <<hlsDir, dirReadable, playlistSize>>

\* fs.statSync of a listed file that is gone throws ENOENT out of the map:
\* the outer catch warns and the pass is over
statMissing ==
  pass' = [pass EXCEPT !.pc = "idle", !.aborted = TRUE]

\* the map over the listed segments with one statSync each, the sort and
\* the slice that selects the oldest segments.length - keepCount of them
PassStat ==
  /\ pass.pc = "stat"
  /\ LET missing == {f \in pass.listed : hlsDir[f] = 0}
     IN IF missing # {}
        THEN statMissing
        ELSE \E sorted \in sortByMtime(pass.listed, hlsDir) :
               LET toDelete ==
                     SubSeq(sorted, 1, Cardinality(pass.listed) - keepCount)
               IN pass' = [pass EXCEPT !.pc = "unlink",
                                       !.todo = toDelete,
                                       !.selected = Range(toDelete)]
  /\ hlsEv' = [hlsEv EXCEPT !.ret = IF pass'.pc = "idle" THEN "void"
                                    ELSE "running"]
  /\ UNCHANGED <<hlsDir, dirReadable, playlistSize, nHlsCalls>>

\* the catch inside the forEach: a warning that names the file, and the
\* forEach goes on with the next one
unlinkFailed(f) ==
  pass' = [pass EXCEPT !.pc = IF Tail(pass.todo) = <<>> THEN "idle"
                              ELSE "unlink",
                       !.todo = Tail(@),
                       !.warned = @ \cup {f},
                       !.failed = IF hlsDir[f] = 0 THEN @ ELSE @ \cup {f}]

\* one turn of toDelete.forEach: unlinkSync of a file that is gone throws
\* ENOENT, and unlinkSync of a file that is there can fail as well
PassUnlink ==
  /\ pass.pc = "unlink"
  /\ LET f == Head(pass.todo)
     IN \E ok \in BOOLEAN :
          /\ hlsDir[f] = 0 => ~ok
          /\ IF ok
             THEN /\ hlsDir' = [hlsDir EXCEPT ![f] = 0]
                  /\ pass' = [pass EXCEPT
                                !.pc = IF Tail(pass.todo) = <<>> THEN "idle"
                                       ELSE "unlink",
                                !.todo = Tail(@),
                                !.deleted = @ \cup {f}]
             ELSE /\ unlinkFailed(f)
                  /\ UNCHANGED hlsDir
  /\ hlsEv' = [hlsEv EXCEPT !.ret = IF pass'.pc = "idle" THEN "void"
                                    ELSE "running"]
  /\ UNCHANGED <<dirReadable, playlistSize, nHlsCalls>>

\* the child process removes a segment while a pass is under way
\* (-hls_flags delete_segments)
WriterRemove ==
  /\ pass.pc # "idle"
  /\ pass.writes < MaxWriterOps
  /\ \E f \in Segments :
       /\ hlsDir[f] # 0
       /\ hlsDir' = [hlsDir EXCEPT ![f] = 0]
  /\ pass' = [pass EXCEPT !.writes = @ + 1]
  /\ UNCHANGED <<dirReadable, playlistSize, nHlsCalls, hlsEv>>

\* the child process writes a new segment while a pass is under way
WriterAdd ==
  /\ pass.pc # "idle"
  /\ pass.writes < MaxWriterOps
  /\ \E f \in Segments :
       /\ hlsDir[f] = 0
       /\ hlsDir' = [hlsDir EXCEPT ![f] = MaxSegments + 1]
  /\ pass' = [pass EXCEPT !.writes = @ + 1]
  /\ UNCHANGED <<dirReadable, playlistSize, nHlsCalls, hlsEv>>

\* the output directory becomes unreadable, or readable again
Chmod ==
  /\ pass.pc = "idle"
  /\ dirReadable' = ~dirReadable
  /\ UNCHANGED <<hlsDir, playlistSize, pass, nHlsCalls, hlsEv>>

\* readdirSync and the filter inside a try block whose catch returns 0
getCurrentSegmentCount ==
  IF dirReadable
  THEN [ret |-> Cardinality(segmentFilter(readdirSync(hlsDir))),
        threw |-> FALSE]
  ELSE [ret |-> 0, threw |-> FALSE]

GetCurrentSegmentCount ==
  /\ pass.pc = "idle"
  /\ hlsEv' = HlsEv("getCurrentSegmentCount", "count",
                    getCurrentSegmentCount.ret, getCurrentSegmentCount.threw,
                    {})
  /\ UNCHANGED <<hlsDir, dirReadable, playlistSize, pass, nHlsCalls>>

\* file.endsWith('.ts') || file.endsWith('.m3u8')
hlsFiles(files) == {f \in files : endsWith(f, ".ts") \/ endsWith(f, ".m3u8")}

Unlink(dir, names) == [f \in FileNames |-> IF f \in names THEN 0 ELSE dir[f]]

\* files.forEach(...) of cleanupAll(): `visited` are the playlist and
\* segment files forEach came to before the one whose unlinkSync throws
\* (`failing`, empty when none does); the throw ends the forEach, and the
\* catch around it warns
cleanupAll(visited, failing) ==
  IF failing = {}
  THEN Unlink(hlsDir, hlsFiles(readdirSync(hlsDir)))
  ELSE Unlink(hlsDir, visited)

\* readdirSync lists the files in no particular order, so the files that
\* come before a given one are any of the others
CleanupAll ==
  /\ pass.pc = "idle"
  /\ nHlsCalls < MaxHlsCalls
  /\ IF ~dirReadable
     THEN /\ hlsEv' = HlsEv("cleanupAll", "void", -1, FALSE, {})
          /\ UNCHANGED hlsDir
     ELSE \E failing \in {{}} \cup {{f} : f \in hlsFiles(readdirSync(hlsDir))} :
          \E visited \in SUBSET (hlsFiles(readdirSync(hlsDir)) \ failing) :
            /\ failing = {} => visited = hlsFiles(readdirSync(hlsDir))
            /\ hlsDir' = cleanupAll(visited, failing)
            /\ hlsEv' = HlsEv("cleanupAll", "void", -1, FALSE, failing)
  /\ nHlsCalls' = nHlsCalls + 1
  /\ UNCHANGED <<dirReadable, playlistSize, pass>>

\* this.cleanupInterval = setInterval(...): the interval that the field
\* held before, if any, stays armed
startCleanupScheduler ==
  /\ timers' = timers \cup {nIntervals + 1}
  /\ hlsInterval' = nIntervals + 1

StartCleanupScheduler ==
  /\ pass.pc = "idle"
  /\ nIntervals < MaxIntervals
  /\ startCleanupScheduler
  /\ nIntervals' = nIntervals + 1
  /\ schedStopped' = FALSE

stopCleanupScheduler ==
  IF hlsInterval # 0
  THEN /\ timers' = timers \ {hlsInterval}
       /\ hlsInterval' = 0
  ELSE UNCHANGED <<timers, hlsInterval>>

StopCleanupScheduler ==
  /\ pass.pc = "idle"
  /\ stopCleanupScheduler
  /\ schedStopped' = TRUE
  /\ UNCHANGED nIntervals

\* an interval that is armed fires: its callback calls cleanupOldSegments()
TimerFire ==
  /\ timers # {}
  /\ PassList("timer")

SegmentIndex(f) == CHOOSE k \in 1..MaxSegments : Segment(k) = f

\* ffmpeg writes the segments in the order of their numbers, and a child
\* that was restarted numbers from 0 again: the first `restarted` segments
\* are those of the present child, newer than the ones the child before it
\* has left
Mtime(k, restarted) ==
  IF k <= restarted THEN MaxSegments - restarted + k ELSE k - restarted

\* the directories a call can find: any of the segments, next to the other
\* files
HlsDirs(restarts) ==
  {[f \in FileNames |->
      IF f \in Others THEN 1
      ELSE IF f \in present THEN Mtime(SegmentIndex(f), restarted) ELSE 0] :
     present \in SUBSET Segments, restarted \in restarts}

HlsInit(dirs, sizes) ==
  /\ hlsDir \in dirs
  /\ dirReadable = TRUE
  /\ playlistSize \in sizes
  /\ pass = NewPass("none")
  /\ nHlsCalls = 0
  /\ hlsEv = HlsEv("constructor", "void", -1, FALSE, {})
  /\ hlsInterval = 0
  /\ timers = {}
  /\ nIntervals = 0
  /\ schedStopped = FALSE

\* the output directory before ffmpeg has written anything
HlsIdle == HlsInit({[f \in FileNames |-> 0]}, {1})

(***************************************************************************)
(* The capability flag of the two services and FFmpegService.buildArgs()   *)
(***************************************************************************)
\* process.platform
Platforms == {"win32", "linux", "darwin"}

\* the variables of process.env that the two canUseFifos() look at
EnvNames == {"WSL_DISTRO_NAME", "WSLENV", "MSYSTEM", "MINGW_PREFIX"}

\* FifoService.canUseFifos(): on win32 true under WSL and under MSYS2
FifoService_canUseFifos(p, e) ==
  IF p = "win32"
  THEN IF "WSL_DISTRO_NAME" \in e \/ "WSLENV" \in e THEN TRUE
       ELSE IF "MSYSTEM" \in e \/ "MINGW_PREFIX" \in e THEN TRUE
       ELSE FALSE
  ELSE TRUE

\* FFmpegService.canUseFifos(): on win32 true under WSL only
FFmpegService_canUseFifos(p, e) ==
  IF p = "win32"
  THEN IF "WSL_DISTRO_NAME" \in e \/ "WSLENV" \in e THEN TRUE
       ELSE IF "MSYSTEM" \in e \/ "MINGW_PREFIX" \in e THEN FALSE
       ELSE FALSE
  ELSE TRUE

\* an element of the argument list: a string, or the filter graph that
\* follows '-filter_complex' (a sequence of chains)
Arg(s) == [s |-> s, graph |-> <<>>]

GraphArg(g) == [s |-> "filter_complex", graph |-> g]

Args(strings) == [i \in 1..Len(strings) |-> Arg(strings[i])]

\* a pad of the filter graph: `[3:v]` is the video of input 3, `[tmp1]` a
\* label (the labels tmp0, tmp1, ... carry their number in n)
Pad(idx, kind) == [idx |-> idx, name |-> kind, n |-> -1]

Label(name) == [idx |-> -1, name |-> name, n |-> -1]

Tmp(n) == [idx |-> -1, name |-> "tmp", n |-> n]

\* one filter of a chain; x is its numeric parameter (the offset of an
\* overlay, the inputs of amix, the port of zmq)
Filter(name, x) == [f |-> name, x |-> x]

\* `[in][in]filter,filter[out]`
Chain(ins, filters, out) == [ins |-> ins, filters |-> filters, out |-> out]

\* CONFIG.zmq.port
ZmqPort == 5555

ColorSource == "color=c=black:size=1280x720:rate=30"

SilenceSource == "anullsrc=channel_layout=stereo:sample_rate=48000"

\* FifoService.getContentFifoPath()
ContentFifoPath == "fifos/content.fifo"

\* FifoService.getLayerFifoPath(index), over CONFIG.fifos.layers
LayerFifoPath(index) ==
  <<"fifos/overlay1.fifo", "fifos/overlay2.fifo", "fifos/overlay3.fifo",
    "fifos/overlay4.fifo">>[index + 1]

\* a graph in which the layers come right after the content input
inputIndex_noBackground(i) == i + 1

\* const inputIndex = i + 3
inputIndex(i) == i + 3

\* const outLabel = i === numLayers - 1 ? 'tmp_final' : `tmp${i + 1}`
outLabel(i, numLayers) ==
  IF i = numLayers - 1 THEN Label("tmp_final") ELSE Tmp(i + 1)

\* the value of lastLabel when the loop of buildFilterComplex() is at i
lastLabel(i, numLayers) ==
  IF i = 0 THEN Tmp(0) ELSE outLabel(i - 1, numLayers)

\* buildFilterComplex()
buildFilterComplex ==
  IF ~FFmpegService_canUseFifos(platform, env)
  THEN <<Chain(<<Pad(0, "v")>>,
               (IF backgroundText THEN <<Filter("drawtext", 10)>>
                ELSE <<Filter("", 0)>>) \o <<Filter("zmq", ZmqPort)>>,
               Label("vout")),
         Chain(<<Pad(1, "a")>>, <<Filter("anull", 0)>>, Label("aout"))>>
  ELSE LET numLayers == layerCount
       IN <<Chain(<<Pad(0, "v")>>,
                  <<IF backgroundText THEN Filter("drawtext", 10)
                    ELSE Filter("scale", 0)>>,
                  Label("bg")),
            Chain(<<Label("bg"), Pad(2, "v")>>, <<Filter("overlay", 0)>>,
                  Tmp(0))>>
          \o [k \in 1..numLayers |->
                Chain(<<lastLabel(k - 1, numLayers), Pad(inputIndex(k - 1), "v")>>,
                      <<Filter("overlay", k * 50)>>,
                      outLabel(k - 1, numLayers))]
          \o <<Chain(<<lastLabel(numLayers, numLayers)>>,
                     <<Filter("zmq", ZmqPort)>>, Label("vout")),
               LET audioInputs ==
                     <<Pad(1, "a"), Pad(2, "a")>>
                       \o [k \in 1..numLayers |-> Pad((k - 1) + 3, "a")]
               IN Chain(audioInputs, <<Filter("amix", Len(audioInputs))>>,
                        Label("aout"))>>

\* the encoder options of both branches of buildArgs()
videoOptions ==
  Args(<<"-c:v", "libx264", "-preset", "ultrafast", "-crf", "23", "-g", "48",
         "-keyint_min", "48", "-sc_threshold", "0", "-force_key_frames",
         "expr:gte(t,n_forced*2)">>)

audioOptions == Args(<<"-c:a", "aac", "-b:a", "128k", "-ar", "48000">>)

\* degraded inputs that still read the content channel
degradedInputs_withContent ==
  Args(<<"-f", "lavfi", "-i", ColorSource, "-f", "lavfi", "-i", SilenceSource,
         "-f", "concat", "-safe", "0", "-i", ContentFifoPath>>)

\* the inputs of the branch `if (!this.canUseFifos())`
degradedInputs ==
  Args(<<"-f", "lavfi", "-i", ColorSource, "-f", "lavfi", "-i",
         SilenceSource>>)

\* the inputs of the other branch: background, silence, the content
\* channel and one input per layer
fifoInputs ==
  Args(<<"-f", "lavfi", "-i", ColorSource, "-f", "lavfi", "-i", SilenceSource,
         "-f", "concat", "-safe", "0", "-i", ContentFifoPath>>)
  \o [k \in 1..(2 * layerCount) |->
        IF k % 2 = 1 THEN Arg("-i") ELSE Arg(LayerFifoPath(k \div 2 - 1))]

\* buildArgs()
buildArgs ==
  (IF ~FFmpegService_canUseFifos(platform, env)
   THEN degradedInputs \o videoOptions \o audioOptions
   ELSE fifoInputs
        \o <<Arg("-filter_complex"), GraphArg(buildFilterComplex)>>
        \o Args(<<"-map", "[vout]">>) \o videoOptions
        \o Args(<<"-map", "[aout]">>) \o audioOptions)
  \o Args(<<"-f", "hls", "-hls_time", "2", "-hls_list_size", ToString(playlistSize),
            "-hls_flags", "delete_segments+independent_segments",
            "-hls_segment_filename", "hls/stream_%03d.ts",
            "hls/stream.m3u8">>)

\* a call on one of the pure methods: flag is what a canUseFifos()
\* returned, args what buildArgs() returned
ArgEv(op, flag, args) == [op |-> op, flag |-> flag, args |-> args]

CallFifoCanUseFifos ==
  /\ argEv' = ArgEv("FifoService.canUseFifos",
                    FifoService_canUseFifos(platform, env), <<>>)
  /\ UNCHANGED <<platform, env, backgroundText>>

CallFFmpegCanUseFifos ==
  /\ argEv' = ArgEv("FFmpegService.canUseFifos",
                    FFmpegService_canUseFifos(platform, env), <<>>)
  /\ UNCHANGED <<platform, env, backgroundText>>

CallBuildArgs ==
  /\ argEv' = ArgEv("buildArgs", FFmpegService_canUseFifos(platform, env),
                    buildArgs)
  /\ UNCHANGED <<platform, env, backgroundText>>

\* the process runs on a platform, in an environment, with a configuration
ArgInit(platforms, envs, texts) ==
  /\ platform \in platforms
  /\ env \in envs
  /\ backgroundText \in texts
  /\ argEv = ArgEv("constructor", FALSE, <<>>)

\* the platform of the specifications that do not look at it
ArgIdle ==
  ArgInit({IF canUseFifos THEN "linux" ELSE "win32"}, {{}}, {FALSE})

(***************************************************************************)
(* FFmpegService.initializeContent()                                       *)
(***************************************************************************)
\* CONFIG.initialContent
InitialContent == "assets/default.mp4"

\* path.join(CONFIG.hls.outputDir, 'blank.mp4')
BlankPath == "hls/blank.mp4"

\* what initializeContent() has done: calls are the paths it has handed to
\* writeContent, generated that the placeholder was made, logged that the
\* catch has logged a failure, threw that the call ended with an exception
InitEv(op, calls, generated, logged, threw) ==
  [op |-> op, calls |-> calls, generated |-> generated, logged |-> logged,
   threw |-> threw]

\* an initializeContent() without the test of canUseFifos()
initializeContent_noCapabilityTest ==
  IF existsSync(InitialContent)
    THEN /\ writeContent(InitialContent)
         /\ initPc' = "done"
         /\ initEv' = InitEv("initializeContent", <<InitialContent>>, FALSE,
                             FALSE, FALSE)
    ELSE /\ initPc' = "exec"
         /\ initEv' = InitEv("initializeContent", <<>>, FALSE, FALSE, FALSE)
         /\ UNCHANGED <<streams, contentCalls, fifoEv>>

\* initializeContent() up to its return or to the await of execAsync
initializeContent ==
  IF ~FFmpegService_canUseFifos(platform, env)
    THEN /\ initPc' = "done"
         /\ initEv' = InitEv("initializeContent", <<>>, FALSE, FALSE, FALSE)
         /\ UNCHANGED <<streams, contentCalls, fifoEv>>
    ELSE IF existsSync(InitialContent)
    THEN /\ writeContent(InitialContent)
         /\ initPc' = "done"
         /\ initEv' = InitEv("initializeContent", <<InitialContent>>, FALSE,
                             FALSE, FALSE)
    ELSE /\ initPc' = "exec"
         /\ initEv' = InitEv("initializeContent", <<>>, FALSE, FALSE, FALSE)
         /\ UNCHANGED <<streams, contentCalls, fifoEv>>

InitializeContent ==
  /\ initPc = "idle"
  /\ initializeContent
  /\ UNCHANGED <<layerCount, canUseFifos, mkfifoWorks, objs, activeFifos,
                 uncaught, nCalls, layerCalls, mediaFiles>>

\* the one-shot ffmpeg ends: with exit code 0 it has written blank.mp4, with
\* another one it may have left a part of it
ExecSettled ==
  /\ initPc = "exec"
  /\ \E ok \in BOOLEAN :
       /\ initPc' = IF ok THEN "resolved" ELSE "rejected"
       /\ \/ mediaFiles' = mediaFiles \cup {BlankPath}
          \/ ~ok /\ mediaFiles' = mediaFiles
  /\ UNCHANGED <<initEv, fifoVars>>

\* initializeContent() goes on after the await of execAsync: writeContent
\* of the placeholder, or the catch
contentResume ==
  IF initPc = "resolved"
    THEN /\ writeContent(BlankPath)
         /\ initEv' = [initEv EXCEPT !.calls = Append(@, BlankPath),
                                     !.generated = TRUE]
    ELSE /\ initEv' = [initEv EXCEPT !.logged = TRUE]
         /\ UNCHANGED <<streams, contentCalls, fifoEv>>

ContentResume ==
  /\ initPc \in {"resolved", "rejected"}
  /\ contentResume
  /\ initPc' = "done"
  /\ UNCHANGED <<layerCount, canUseFifos, mkfifoWorks, objs, activeFifos,
                 uncaught, nCalls, layerCalls, mediaFiles>>

\* initializeContent() has not been called; files is what is on the disk
ContentInit(files) ==
  /\ mediaFiles \in files
  /\ initPc = "idle"
  /\ initEv = InitEv("constructor", <<>>, FALSE, FALSE, FALSE)

ContentIdle == ContentInit({{}})

AppInit ==
  /\ appPc = "new"
  /\ hostExit = -1
  /\ zmqSocket = "null"
  /\ zmqInitDone = FALSE
  /\ zmqLogBuffer = <<>>
  /\ zmqAppended = 0
  /\ zmqClosePending = FALSE
  /\ startTimer = FALSE
  /\ cleanupInterval = FALSE
  /\ fifosExist = FALSE
  /\ sdFlag = FALSE
  /\ sdPc = "idle"
  /\ sdTrace = <<>>

ChanInit ==
  /\ zmqBindPending = FALSE
  /\ zmqPending = <<>>
  /\ zmqEv = ZmqEv("constructor", "", "void", FALSE)

SupInit ==
  /\ process = 0
  /\ children = [c \in ChildIds |-> NoChild]
  /\ isShuttingDown = FALSE
  /\ restartTimers = 0
  /\ killTimers = 0
  /\ restartWaits = 0
  /\ logBuffer = <<>>
  /\ ev = Ev("init", 0, FALSE, FALSE, FALSE)
  /\ track = [killFor |-> <<>>, since |-> {}, restarted |-> FALSE,
              early |-> 0]

Init ==
  /\ SupInit /\ LogInit /\ ring = "ffmpeg" /\ AppInit /\ ChanInit /\ HlsIdle
  /\ FifoInit(MaxLayers, TRUE, TRUE)
  /\ objs = [ch \in Channels |-> NoObj]
  /\ ArgIdle /\ ContentIdle

\* the rate limiter under the requests of the clients
RateSpec == Init /\ [][RateNext]_vars

\* what the actions of FFmpegService leave alone
notSup == <<logVars, appVars, chanVars, fifoVars, hlsVars, argVars, initVars,
  trackVars, sideVars>>

Next ==
  \/ CallStart /\ UNCHANGED notSup
  \/ CallStop /\ UNCHANGED notSup
  \/ CallRestart /\ UNCHANGED notSup
  \/ RestartResume /\ UNCHANGED notSup
  \/ CallSetShuttingDown /\ UNCHANGED notSup
  \/ CloseEvent /\ UNCHANGED notSup
  \/ ErrorEvent /\ UNCHANGED notSup
  \/ ExitEvent /\ UNCHANGED notSup
  \/ RestartTimerFire /\ UNCHANGED notSup
  \/ KillTimerFire /\ UNCHANGED notSup

Spec == Init /\ [][Next]_vars

LiveSpec ==
  /\ Spec
  /\ WF_vars(RestartTimerFire /\ UNCHANGED notSup)
  /\ WF_vars(KillTimerFire /\ UNCHANGED notSup)

\* what the supervisor leaves alone, the history apart
keptApart == <<logVars, appVars, chanVars, fifoVars, hlsVars, argVars,
               initVars, sideVars>>

\* Spec with the history of the force-kill timers
KillNext ==
  \/ CallStart /\ Track /\ UNCHANGED keptApart
  \/ CallStop /\ Track /\ UNCHANGED keptApart
  \/ CallRestart /\ Track /\ UNCHANGED keptApart
  \/ RestartResume /\ Track /\ UNCHANGED keptApart
  \/ CallSetShuttingDown /\ Track /\ UNCHANGED keptApart
  \/ CloseEvent /\ Track /\ UNCHANGED keptApart
  \/ ErrorEvent /\ Track /\ UNCHANGED keptApart
  \/ ExitEvent /\ Track /\ UNCHANGED keptApart
  \/ RestartTimerFire /\ Track /\ UNCHANGED keptApart
  \/ KillTimerFire /\ Track /\ UNCHANGED keptApart

KillSpec == Init /\ [][KillNext]_vars

\* the pause of restart() is over: a timer of 5 s or of 10 s that is armed
\* in the turn of the restart() call or later fires after its 500 ms
PauseOver == restartWaits = 0

\* the 10 s timer that restart() armed fires after the 5 s timers that
\* were armed within the 500 ms after it
KillDue == PauseOver /\ track.early = 0

\* the OS process of a child ends: before restart() is called at any
\* time, after it when the child was sent a signal
SignalledExit ==
  \E c \in ChildIds :
    /\ track.restarted => children[c].sig # "none"
    /\ ChildExit(c)

\* the binary is there: no spawn of this step fails
Spawns == \A c \in ChildIds : children'[c].st # "failed"

\* one restart() call on a service started once: HLSStreamerApp.start()
\* calls start(), after that only the callbacks and restart() spawn;
\* every spawn succeeds, and once restart() is called a child ends when
\* it is signalled (at once or later), not by itself
RestartNext ==
  \/ ev.op = "init" /\ CallStart /\ Spawns /\ Track /\ UNCHANGED keptApart
  \/ ~track.restarted /\ ev.op # "init" /\ CallRestart /\ Track
       /\ UNCHANGED keptApart
  \/ RestartResume /\ Spawns /\ Track /\ UNCHANGED keptApart
  \/ DataEvent /\ Track /\ UNCHANGED keptApart
  \/ CloseEvent /\ Track /\ UNCHANGED keptApart
  \/ SignalledExit /\ Track /\ UNCHANGED keptApart
  \/ PauseOver /\ RestartTimerFire /\ Spawns /\ Track
       /\ UNCHANGED keptApart
  \/ KillDue /\ KillTimerFire /\ Track /\ UNCHANGED keptApart

\* a child that was sent SIGKILL exits
KilledExit ==
  \E c \in ChildIds : children[c].sig = "SIGKILL" /\ ChildExit(c)

\* timers fire, the pause ends, events are delivered, SIGKILL kills
RestartSpec ==
  /\ Init /\ [][RestartNext]_vars
  /\ WF_vars(RestartResume /\ Spawns /\ Track /\ UNCHANGED keptApart)
  /\ WF_vars(CloseEvent /\ Track /\ UNCHANGED keptApart)
  /\ WF_vars(KilledExit /\ Track /\ UNCHANGED keptApart)
  /\ WF_vars(PauseOver /\ RestartTimerFire /\ Spawns /\ Track
               /\ UNCHANGED keptApart)
  /\ WF_vars(KillDue /\ KillTimerFire /\ Track /\ UNCHANGED keptApart)

supFrozen == <<process, children, isShuttingDown, restartTimers, killTimers,
               restartWaits, ev, appVars, chanVars, fifoVars, hlsVars,
               argVars, initVars,
  trackVars, sideVars>>

LogSpecInit ==
  /\ SupInit /\ LogInit /\ ring \in {"ffmpeg", "zmq"} /\ AppInit /\ ChanInit
  /\ HlsIdle
  /\ FifoInit(MaxLayers, TRUE, TRUE)
  /\ objs = [ch \in Channels |-> NoObj]
  /\ ArgIdle /\ ContentIdle

LogNext ==
  \/ AddToLogBuffer /\ UNCHANGED supFrozen
  \/ ClearLogs /\ UNCHANGED supFrozen
  \/ OnLog /\ UNCHANGED supFrozen
  \/ Unsubscribe /\ UNCHANGED supFrozen

LogSpec == LogSpecInit /\ [][LogNext]_vars

\* what the steps of the streamLogs connections leave alone
streamFrozen == <<process, children, isShuttingDown, restartTimers, killTimers,
                  restartWaits, ev, appVars, chanVars, fifoVars, hlsVars,
                  argVars, initVars, trackVars, rate>>

\* a callback registered with onLog directly, while the Set has room
SubscriberOnLog ==
  /\ OnLog
  /\ UNCHANGED stream

\* the function returned by an onLog call of a callback is called
SubscriberUnsubscribe ==
  /\ Unsubscribe
  /\ UNCHANGED stream

StreamNext ==
  \/ Produce /\ UNCHANGED streamFrozen
  \/ (\E c \in Clients : StreamLogs(c)) /\ UNCHANGED streamFrozen
  \/ (\E c \in Clients : StreamClose(c)) /\ UNCHANGED streamFrozen
  \/ (\E c \in Clients : KeepAlive(c)) /\ UNCHANGED streamFrozen

\* the ring of FFmpegService with the connections of streamLogs
StreamSpecInit == LogSpecInit /\ ring = "ffmpeg"

StreamSpec == StreamSpecInit /\ [][StreamNext]_vars

FanNext ==
  \/ Produce /\ UNCHANGED streamFrozen
  \/ SubscriberOnLog /\ UNCHANGED streamFrozen
  \/ SubscriberUnsubscribe /\ UNCHANGED streamFrozen

\* one log ring (of either service) with subscribers that may throw
FanSpec == LogSpecInit /\ [][FanNext]_vars

\* what the steps of HLSStreamerApp and ShutdownHandler leave alone
appIdle == <<logVars, chanVars, fifoVars, hlsVars, argVars, initVars,
  trackVars, sideVars>>

AppNext ==
  \/ (\E ok \in BOOLEAN : AppBegin(ok)) /\ UNCHANGED appIdle
  \/ (\E ok \in BOOLEAN : AppFifosCreated(ok)) /\ UNCHANGED appIdle
  \/ (\E ok \in BOOLEAN : AppZmqInitialized(ok)) /\ UNCHANGED appIdle
  \/ (\E ok \in BOOLEAN : AppListening(ok)) /\ UNCHANGED appIdle
  \/ AppContentInitialized /\ UNCHANGED appIdle
  \/ StartupTimerFire /\ UNCHANGED appIdle
  \/ GracefulShutdown /\ UNCHANGED appIdle
  \/ HttpStopped /\ UNCHANGED appIdle
  \/ ZmqClosed /\ UNCHANGED appIdle
  \/ ShutdownDone /\ UNCHANGED appIdle
  \/ Running /\ CloseEvent /\ UNCHANGED notSup
  \/ Running /\ ErrorEvent /\ UNCHANGED notSup
  \/ Running /\ ExitEvent /\ UNCHANGED notSup
  \/ Running /\ RestartTimerFire /\ UNCHANGED notSup
  \/ Running /\ KillTimerFire /\ UNCHANGED notSup

AppSpec == Init /\ [][AppNext]_vars

(***************************************************************************)
(* ZmqService driven through its public methods                            *)
(***************************************************************************)
\* the entries that the calls made so far append, once all have returned
ZmqRoom ==
  zmqAppended + Len(zmqPending) + (IF zmqClosePending THEN 1 ELSE 0)
    + (IF zmqBindPending THEN 1 ELSE 0) < MaxZmqOps

\* initialize(), called while no initialize() or close() is suspended
CallInitialize ==
  /\ ZmqRoom
  /\ ~zmqBindPending /\ ~zmqClosePending
  /\ ZmqInitializeCall
  /\ zmqBindPending' = TRUE
  /\ zmqEv' = ZmqEv("initialize", "", "pending", FALSE)
  /\ UNCHANGED <<zmqInitDone, zmqLogBuffer, zmqAppended, zmqClosePending,
                 zmqPending>>

\* initialize() resumes: it returns the socket or rethrows the bind error
InitializeSettled ==
  /\ zmqBindPending
  /\ zmqBindPending' = FALSE
  /\ \E ok \in BOOLEAN :
       /\ ZmqInitializeSettled(ok)
       /\ zmqEv' = ZmqEv("initialize", "", IF ok THEN "socket" ELSE "none",
                         ~ok)
  /\ UNCHANGED <<zmqClosePending, zmqPending>>

CallSendInstruction ==
  /\ ZmqRoom
  /\ \E command \in ZmqCommands : sendInstruction(command)
  /\ UNCHANGED <<zmqSocket, zmqInitDone, zmqClosePending, zmqBindPending>>

SendSettled ==
  /\ \E i \in 1..Len(zmqPending) : \E ok \in BOOLEAN : sendSettled(i, ok)
  /\ UNCHANGED <<zmqSocket, zmqInitDone, zmqClosePending, zmqBindPending>>

\* close(), called while no initialize() or close() is suspended
CallClose ==
  /\ zmqSocket # "null" => ZmqRoom
  /\ ~zmqBindPending /\ ~zmqClosePending
  /\ ZmqCloseCall
  /\ zmqEv' = ZmqEv("close", "", IF zmqClosePending' THEN "pending" ELSE "void",
                    FALSE)
  /\ UNCHANGED <<zmqSocket, zmqInitDone, zmqLogBuffer, zmqAppended,
                 zmqBindPending, zmqPending>>

\* close() resumes: the catch logs a rejection of socket.close()
CloseSettled ==
  /\ \E ok \in BOOLEAN : ZmqCloseSettled(ok)
  /\ zmqEv' = ZmqEv("close", "", "void", FALSE)
  /\ UNCHANGED <<zmqInitDone, zmqBindPending, zmqPending>>

\* what the calls on ZmqService leave alone
zmqFrozen == <<supVars, logVars, appPc, hostExit, startTimer, cleanupInterval,
               fifosExist, sdFlag, sdPc, sdTrace, fifoVars, hlsVars,
               argVars, initVars,
  trackVars, sideVars>>

ZmqNext ==
  \/ CallInitialize /\ UNCHANGED zmqFrozen
  \/ InitializeSettled /\ UNCHANGED zmqFrozen
  \/ CallSendInstruction /\ UNCHANGED zmqFrozen
  \/ SendSettled /\ UNCHANGED zmqFrozen
  \/ CallClose /\ UNCHANGED zmqFrozen
  \/ CloseSettled /\ UNCHANGED zmqFrozen

ZmqSpec == Init /\ [][ZmqNext]_vars

(***************************************************************************)
(* FifoService driven through its public methods                           *)
(***************************************************************************)
\* what a previous run can have left at the path of a channel
LeftOver ==
  {NoObj} \cup
  {[kind |-> k, data |-> d] :
     k \in (IF mkfifoWorks THEN {"fifo", "file"} ELSE {"file"}),
     d \in {<<>>, <<"old">>}}

\* the service is constructed on a platform and over what is on the disk
FifoSpecInit ==
  /\ SupInit /\ LogInit /\ ring = "ffmpeg" /\ AppInit /\ ChanInit /\ HlsIdle
  /\ \E n \in 0..MaxLayers : \E fifos, mkfifo \in BOOLEAN :
       /\ mkfifo => fifos
       /\ FifoInit(n, fifos, mkfifo)
  /\ ArgIdle /\ ContentIdle
  /\ objs \in [Channels -> LeftOver]
  /\ \A ch \in Channels \ Configured : objs[ch] = NoObj

\* what the calls on FifoService leave alone
fifoFrozen == <<supVars, logVars, appVars, chanVars, hlsVars, argVars,
                initVars,
  trackVars, sideVars>>

FifoNext ==
  \/ CreateAll /\ UNCHANGED fifoFrozen
  \/ Cleanup /\ UNCHANGED fifoFrozen

FifoSpec == FifoSpecInit /\ [][FifoNext]_vars

\* writeContent and writeLayer are called before createAll() or after it
WriteSpecInit ==
  /\ SupInit /\ LogInit /\ ring = "ffmpeg" /\ AppInit /\ ChanInit /\ HlsIdle
  /\ \E n \in 0..MaxLayers : \E fifos, mkfifo \in BOOLEAN :
       /\ mkfifo => fifos
       /\ FifoInit(n, fifos, mkfifo)
  /\ ArgIdle /\ ContentIdle
  /\ \/ objs = [ch \in Channels |-> NoObj]
     \/ objs = createAll([ch \in Channels |-> NoObj])

WriteNext ==
  \/ WriteContent /\ UNCHANGED fifoFrozen
  \/ WriteLayer /\ UNCHANGED fifoFrozen
  \/ StreamOpen /\ UNCHANGED fifoFrozen
  \/ StreamError /\ UNCHANGED fifoFrozen
  \/ StreamWrite /\ UNCHANGED fifoFrozen

WriteSpec == WriteSpecInit /\ [][WriteNext]_vars

(***************************************************************************)
(* HlsService driven through its public methods                            *)
(***************************************************************************)
\* what the calls on HlsService leave alone
hlsFrozen == <<supVars, logVars, appVars, chanVars, fifoVars, argVars,
               initVars,
  trackVars, sideVars>>

\* the service is constructed over what is in the output directory
HlsSpecInit ==
  /\ SupInit /\ LogInit /\ ring = "ffmpeg" /\ AppInit /\ ChanInit
  /\ FifoInit(MaxLayers, TRUE, TRUE)
  /\ objs = [ch \in Channels |-> NoObj]
  /\ ArgIdle /\ ContentIdle
  /\ HlsInit(HlsDirs(0..MaxRestarted), 1..MaxPlaylistSize)

HlsNext ==
  \/ PassList("call") /\ UNCHANGED schedVars /\ UNCHANGED hlsFrozen
  \/ PassStat /\ UNCHANGED schedVars /\ UNCHANGED hlsFrozen
  \/ PassUnlink /\ UNCHANGED schedVars /\ UNCHANGED hlsFrozen
  \/ WriterRemove /\ UNCHANGED schedVars /\ UNCHANGED hlsFrozen
  \/ WriterAdd /\ UNCHANGED schedVars /\ UNCHANGED hlsFrozen
  \/ Chmod /\ UNCHANGED schedVars /\ UNCHANGED hlsFrozen
  \/ GetCurrentSegmentCount /\ UNCHANGED schedVars /\ UNCHANGED hlsFrozen

HlsSpec == HlsSpecInit /\ [][HlsNext]_vars

\* cleanupAll() over what is in the output directory
SweepNext ==
  \/ CleanupAll /\ UNCHANGED schedVars /\ UNCHANGED hlsFrozen
  \/ Chmod /\ UNCHANGED schedVars /\ UNCHANGED hlsFrozen

\* cleanupAll() does not look at the modification times or at the
\* configuration
SweepSpecInit ==
  /\ SupInit /\ LogInit /\ ring = "ffmpeg" /\ AppInit /\ ChanInit
  /\ FifoInit(MaxLayers, TRUE, TRUE)
  /\ objs = [ch \in Channels |-> NoObj]
  /\ ArgIdle /\ ContentIdle
  /\ HlsInit(HlsDirs({0}), {1})

SweepSpec == SweepSpecInit /\ [][SweepNext]_vars

\* the scheduler: the passes are those the armed intervals invoke, and
\* nothing else touches the output directory
SchedNext ==
  \/ StartCleanupScheduler /\ UNCHANGED dirVars /\ UNCHANGED hlsFrozen
  \/ StopCleanupScheduler /\ UNCHANGED dirVars /\ UNCHANGED hlsFrozen
  \/ TimerFire /\ UNCHANGED schedVars /\ UNCHANGED hlsFrozen
  \/ PassStat /\ UNCHANGED schedVars /\ UNCHANGED hlsFrozen
  \/ PassUnlink /\ UNCHANGED schedVars /\ UNCHANGED hlsFrozen

SchedSpec == HlsSpecInit /\ [][SchedNext]_vars

(***************************************************************************)
(* The capability flags and buildArgs() on every platform                  *)
(***************************************************************************)
\* what the calls of canUseFifos() and buildArgs() leave alone
argFrozen == <<supVars, logVars, appVars, chanVars, fifoVars, hlsVars,
               initVars,
  trackVars, sideVars>>

\* the process runs on any platform with any of the variables set, and the
\* configuration has any number of layers, with or without a text
ArgSpecInit ==
  /\ SupInit /\ LogInit /\ ring = "ffmpeg" /\ AppInit /\ ChanInit /\ HlsIdle
  /\ ArgInit(Platforms, SUBSET EnvNames, BOOLEAN) /\ ContentIdle
  /\ \E n \in 0..MaxLayers :
       FifoInit(n, FifoService_canUseFifos(platform, env),
                FifoService_canUseFifos(platform, env))
  /\ objs = [ch \in Channels |-> NoObj]

ArgNext ==
  \/ CallFifoCanUseFifos /\ UNCHANGED argFrozen
  \/ CallFFmpegCanUseFifos /\ UNCHANGED argFrozen
  \/ CallBuildArgs /\ UNCHANGED argFrozen

ArgSpec == ArgSpecInit /\ [][ArgNext]_vars

(***************************************************************************)
(* initializeContent() on every platform, after createAll()                *)
(***************************************************************************)
contentFrozen == <<supVars, logVars, appVars, chanVars, hlsVars, argVars,
  trackVars, sideVars>>

ContentSpecInit ==
  /\ SupInit /\ LogInit /\ ring = "ffmpeg" /\ AppInit /\ ChanInit /\ HlsIdle
  /\ ArgInit(Platforms, SUBSET EnvNames, {FALSE})
  /\ ContentInit(SUBSET {InitialContent, BlankPath})
  /\ \E n \in 0..MaxLayers :
       FifoInit(n, FifoService_canUseFifos(platform, env),
                FifoService_canUseFifos(platform, env))
  /\ objs = createAll([ch \in Channels |-> NoObj])

ContentNext ==
  \/ InitializeContent /\ UNCHANGED contentFrozen
  \/ ExecSettled /\ UNCHANGED contentFrozen
  \/ ContentResume /\ UNCHANGED contentFrozen

ContentSpec == ContentSpecInit /\ [][ContentNext]_vars

TypeOK ==
  /\ process \in 0..MaxChildren
  /\ restartTimers \in 0..MaxChildren
  /\ restartWaits \in 0..MaxChildren
  /\ killTimers \in 0..MaxKillTimers
  /\ Len(logBuffer) <= maxLogBuffer
  /\ Occupied + restartTimers + restartWaits <= MaxChildren

(***************************************************************************)
(* Properties of the process supervisor                                    *)
(***************************************************************************)
\* C1: at most one spawned child that has not yet exited exists, in every
\* state reachable by start(), stop(), restart(), child events and timers.
C1_AtMostOneLiveChild == Cardinality(LiveChildren) <= 1

\* C2: after a close event taken with the shutdown flag unset, the backoff
\* timer calls start() again, so isRunning() becomes true again unless the
\* flag gets set; a backoff callback that runs with the flag unset leaves a
\* tracked handle.
C2_AutoRestart ==
  /\ (ev.op = "close" /\ ~isShuttingDown) ~> (isRunning \/ isShuttingDown)
  /\ [][(ev'.op = "close" /\ ~isShuttingDown)
          => restartTimers' = restartTimers + 1]_vars
  /\ [][(ev'.op = "restartTimer" /\ ~isShuttingDown) => isRunning']_vars

C2_Witness ==
  ev.op = "restartTimer" /\ ev.spawned /\ ~isShuttingDown /\ isRunning

\* C3: with the shutdown flag set, the restart path spawns nothing: a close
\* event arms no backoff timer, a backoff timer that fires calls no start(),
\* and while the flag stays set a cleared handle only comes back through an
\* explicit start() or restart() call.
C3_NoRestartDuringShutdown ==
  [][isShuttingDown =>
       /\ (ev'.op = "close" => restartTimers' = restartTimers)
       /\ (ev'.op = "restartTimer" => UNCHANGED <<process, children>>)
       /\ (isShuttingDown' /\ process = 0 /\ process' # 0
             => ev'.op \in {"start", "restartResume"})]_vars

C3_Witness ==
  ev.op = "restartTimer" /\ isShuttingDown /\ process = 0

\* C4: after stop() on a tracked child isRunning() becomes false at the
\* latest when the grace timer fires; the timer callback sends SIGKILL to a
\* handle it finds tracked and clears it.
C4_ForcedKill ==
  /\ (ev.op \in {"stop", "restart"} /\ ev.child # 0) ~> ~isRunning
  /\ [][ev'.op = "killTimer" =>
          /\ process' = 0
          /\ (process # 0 /\ children[process].st = "running"
                => children'[process].sig = "SIGKILL")]_vars

C4_Witness ==
  /\ ev.op = "killTimer"
  /\ ev.child # 0
  /\ children[ev.child] = [st |-> "running", sig |-> "SIGKILL"]
  /\ process = 0

\* C5: start() while a handle is tracked spawns nothing and changes neither
\* the handle, the child objects (and their handlers), the log ring nor any
\* timer.
C5_StartWhileRunningIsNoOp ==
  [][(ev'.op = "start" /\ process # 0) =>
       UNCHANGED <<process, children, logBuffer, restartTimers, killTimers,
                   restartWaits, isShuttingDown>>]_vars

C5_Witness ==
  ev.op = "start" /\ ~ev.spawned /\ process # 0

\* C6 as stated: a spawn failure does not lead to an automatic restart
\* being scheduled.
C6_SpawnFailureSchedulesNoRestart ==
  [][(ev'.op = "close" /\ ev'.failed) => restartTimers' = restartTimers]_vars

\* C6 amended: the error handler appends an 'error' entry, clears the handle
\* and arms no timer itself; the close event that follows the failed spawn
\* arms one backoff timer exactly when the shutdown flag is unset.
C6_ErrorHandler ==
  [][/\ ev'.op = "error" =>
          /\ process' = 0
          /\ logBuffer' # <<>>
          /\ logBuffer'[Len(logBuffer')].type = "error"
          /\ UNCHANGED <<restartTimers, killTimers, restartWaits>>
     /\ (ev'.op = "close" /\ ev'.failed) =>
          restartTimers' = restartTimers + (IF isShuttingDown THEN 0 ELSE 1)
    ]_vars

C6_Witness ==
  ev.op = "error" /\ process = 0 /\ children[ev.child].st = "errored"

(***************************************************************************)
(* Properties of the log rings                                             *)
(***************************************************************************)
\* the entries appended since construction or the last clearLogs()
Recent == SubSeq(appended, clearedAt + 1, Len(appended))

Count(seq, e) == Cardinality({i \in 1..Len(seq) : seq[i] = e})

\* s lists entries in the order of their appends
InAppendOrder(s) ==
  \A i, j \in 1..Len(s) : i < j => s[i].timestamp < s[j].timestamp

\* C9: for the ring of either service the buffer never holds more than
\* maxLogBuffer entries, it holds exactly the most recently appended ones in
\* append order (the oldest are evicted first), and getLogs() returns them
\* most-recent-last.
C9_BoundedLogRing ==
  /\ Len(logBuffer) <= maxLogBuffer
  /\ logBuffer = SliceLast(Recent, maxLogBuffer)
  /\ getLogs = SliceLast(Recent, maxLogBuffer)
  /\ InAppendOrder(getLogs)

C9_Witness ==
  /\ Len(Recent) > maxLogBuffer
  /\ Len(logBuffer) = maxLogBuffer
  /\ logBuffer[1] # Recent[1]
  /\ logBuffer[Len(logBuffer)] = appended[Len(appended)]

\* the time of the first call of the function returned by the k-th onLog
\* call, 0 when it has not been called
FirstUnsub(k) ==
  LET at == {u.at : u \in {v \in unsubCalls : v.sub = k}}
  IN  IF at = {} THEN 0 ELSE Min(at)

\* e was appended after the k-th onLog call and before its unsubscribe()
InWindow(k, e) ==
  /\ e.timestamp > subs[k].reg
  /\ FirstUnsub(k) = 0 \/ e.timestamp < FirstUnsub(k)

\* C10 as stated: the callback of every onLog call is invoked exactly once,
\* in append order, for every entry appended after the call and before the
\* returned unsubscribe() is called, and never for an entry appended after
\* that unsubscribe() (unless another onLog call of the callback covers it).
C10_LiveSubscription ==
  /\ \A cb \in Callbacks : InAppendOrder(delivered[cb])
  /\ \A k \in 1..Len(subs) : \A i \in 1..Len(appended) :
       LET e == appended[i]
           cb == subs[k].cb
       IN  /\ InWindow(k, e) => Count(delivered[cb], e) = 1
           /\ (/\ FirstUnsub(k) # 0
               /\ e.timestamp > FirstUnsub(k)
               /\ ~\E j \in 1..Len(subs) : subs[j].cb = cb /\ InWindow(j, e))
                => Count(delivered[cb], e) = 0

\* cb is registered at time t: some onLog(cb) was called before t and no
\* unsubscribe function returned for cb (by that or any other onLog(cb)
\* call) was called between that onLog call and t
Registered(cb, t) ==
  \E k \in 1..Len(subs) :
    /\ subs[k].cb = cb
    /\ subs[k].reg < t
    /\ ~\E u \in unsubCalls :
          subs[u.sub].cb = cb /\ subs[k].reg < u.at /\ u.at < t

\* C10 amended: a callback is invoked exactly once, in append order, for
\* every entry appended while it is registered, and never for another entry;
\* registering a callback that is already registered adds no subscription,
\* so the first unsubscribe() for that callback ends the delivery.
C10_LiveSubscriptionPerCallback ==
  /\ \A cb \in Callbacks : InAppendOrder(delivered[cb])
  /\ \A cb \in Callbacks : \A i \in 1..Len(appended) :
       Count(delivered[cb], appended[i]) =
         (IF Registered(cb, appended[i].timestamp) THEN 1 ELSE 0)

C10_Witness ==
  \E k \in 1..Len(subs) : \E i, j \in 1..Len(appended) :
    /\ InWindow(k, appended[i])
    /\ Count(delivered[subs[k].cb], appended[i]) = 1
    /\ FirstUnsub(k) # 0
    /\ appended[j].timestamp > FirstUnsub(k)
    /\ Count(delivered[subs[k].cb], appended[j]) = 0

(***************************************************************************)
(* Properties of startup and shutdown                                      *)
(***************************************************************************)
\* C7: a child object exists only after ZmqService.initialize() has bound
\* the socket and returned, and when the bind fails the host process exits
\* with code 1 and start() never runs (nothing was spawned, no timer that
\* could spawn is pending, the process log is still empty).
C7_ZmqBoundBeforeSpawn ==
  /\ Occupied > 0 => zmqInitDone
  /\ logBuffer # <<>> => zmqInitDone
  /\ (appPc = "failed" /\ zmqSocket = "unbound") =>
       /\ hostExit = 1
       /\ ~zmqInitDone
       /\ Occupied = 0
       /\ ~startTimer
       /\ restartTimers = 0

C7_Witness ==
  /\ process # 0
  /\ children[process].st = "running"
  /\ zmqSocket = "bound"
  /\ zmqInitDone

IsPrefix(s, t) ==
  Len(s) <= Len(t) /\ \A i \in 1..Len(s) : s[i] = t[i]

\* the end of ZmqService.close(), with or without an error
ZmqCloseEnds == {"zmq.closed", "zmq.closeFailed"}

\* C8 as stated: the flag is set before stop(), and stop(), the close of the
\* parameter channel, cleanup(), stopCleanupScheduler() and cleanupAll()
\* each happen only after the previous one has completed.
C8_ShutdownOrderEachCompleted ==
  \E z \in ZmqCloseEnds :
    IsPrefix(sdTrace, <<"ffmpeg.setShuttingDown", "ffmpeg.stop",
                        "zmq.close", z, "fifo.cleanup",
                        "hls.stopCleanupScheduler", "hls.cleanupAll">>)

\* C8 amended: the flag is set before stop(), and the calls are made in the
\* order stop(), ZmqService.close(), cleanup(), stopCleanupScheduler(),
\* cleanupAll(); close() is only started at its place and is not awaited
\* there, it completes after cleanupAll() has returned.
C8_ShutdownOrderOfCalls ==
  /\ \E z \in ZmqCloseEnds :
       IsPrefix(sdTrace, <<"ffmpeg.setShuttingDown", "ffmpeg.stop",
                           "zmq.close", "fifo.cleanup",
                           "hls.stopCleanupScheduler", "hls.cleanupAll", z>>)
  /\ sdTrace # <<>> => isShuttingDown /\ ~cleanupInterval /\ ~fifosExist

C8_Witness ==
  /\ Len(sdTrace) = 7
  /\ sdTrace[7] = "zmq.closed"
  /\ zmqSocket = "null"

(***************************************************************************)
(* Properties of the parameter channel (ZmqService)                        *)
(***************************************************************************)
\* the newest entry of the ring of ZmqService
ZmqLastEntry(buf) == buf[Len(buf)]

\* the step is a (new) call of sendInstruction, not the return of a
\* suspended one
IsSendCall == zmqEv'.op = "sendInstruction" /\ Len(zmqPending') >= Len(zmqPending)

\* C11: sendInstruction called while this.socket is null (before
\* initialize() or after a successful close()) returns false, throws
\* nothing, calls no socket.send and appends one 'error' entry.
C11_SendWhenNotInitialized ==
  [][(IsSendCall /\ zmqSocket = "null") =>
       /\ zmqEv'.ret = "false"
       /\ ~zmqEv'.threw
       /\ zmqPending' = zmqPending
       /\ zmqAppended' = zmqAppended + 1
       /\ ZmqLastEntry(zmqLogBuffer').type = "error"]_vars

C11_Witness ==
  /\ zmqEv.op = "sendInstruction" /\ zmqEv.ret = "false"
  /\ zmqSocket = "null" /\ zmqInitDone
  /\ zmqPending = <<>>
  /\ \E i \in 1..(Len(zmqLogBuffer) - 1) :
       /\ zmqLogBuffer[i].message = "Socket closed"
       /\ zmqLogBuffer[i + 1].message = "Socket not initialized"

\* C12: a sendInstruction call appends exactly one entry by the time it
\* returns (none while it is suspended), it returns true iff that entry is
\* tagged 'sent' with the command as message and false iff it is tagged
\* 'error', and a failed send leaves this.socket as it was.
C12_SendResultMatchesLog ==
  [][zmqEv'.op = "sendInstruction" =>
       IF zmqEv'.ret = "pending"
         THEN UNCHANGED <<zmqLogBuffer, zmqAppended, zmqSocket>>
         ELSE LET e == ZmqLastEntry(zmqLogBuffer') IN
              /\ zmqAppended' = zmqAppended + 1
              /\ zmqEv'.ret \in {"true", "false"}
              /\ zmqEv'.ret = "true" <=> e.type = "sent"
              /\ zmqEv'.ret = "false" <=> e.type = "error"
              /\ e.type = "sent" => e.message = zmqEv'.command
              /\ ~zmqEv'.threw
              /\ zmqSocket' = zmqSocket]_vars

C12_Witness ==
  /\ zmqEv.op = "sendInstruction" /\ zmqEv.ret = "true"
  /\ isConnected
  /\ \E i \in 1..(Len(zmqLogBuffer) - 1) :
       /\ zmqLogBuffer[i].message = "Send failed"
       /\ zmqLogBuffer[i + 1].type = "sent"
       /\ zmqLogBuffer[i + 1].message = zmqEv.command

\* C13: close() never throws; when socket.close() succeeded the socket is
\* cleared, so isConnected() is false; and close() called while no socket
\* is held calls nothing on a socket, appends nothing and changes nothing.
C13_CloseIdempotent ==
  [][zmqEv'.op = "close" =>
       /\ ~zmqEv'.threw
       /\ (zmqSocket = "null" /\ ~zmqClosePending) =>
            UNCHANGED <<zmqSocket, zmqLogBuffer, zmqAppended, zmqClosePending,
                        zmqPending, zmqInitDone>>
       /\ (zmqAppended' > zmqAppended
            /\ ZmqLastEntry(zmqLogBuffer').message = "Socket closed") =>
            ~isConnected']_vars

C13_Witness ==
  /\ zmqEv.op = "close" /\ zmqEv.ret = "void"
  /\ ~isConnected /\ zmqInitDone /\ ~zmqClosePending
  /\ ZmqLastEntry(zmqLogBuffer).message = "Socket not initialized"

(***************************************************************************)
(* Properties of the input channels (FifoService)                          *)
(***************************************************************************)
\* no stream of channel ch is left: every append or copy has finished
Quiet(ch) == \A i \in 1..Len(streams) : streams[i].ch # ch

Distinct(s) == \A i, j \in 1..Len(s) : i # j => s[i] # s[j]

\* the lines of the concat entries of the paths in calls, in that order
EntriesOf(calls) == [k \in 1..Len(calls) |-> ConcatEntry(calls[k])]

\* C14: once the appends of N writeContent calls with existing, distinct
\* paths have finished, the content object holds exactly their N concat
\* entries in call order, also when calls were made before earlier appends
\* had completed.
C14_AppendOrder ==
  (/\ uncaught = -1
   /\ Quiet(0)
   /\ objs[0].kind # "none"
   /\ Distinct(contentCalls))
    => objs[0].data = EntriesOf(contentCalls)

\* C15: writeContent with a path for which fs.existsSync is false returns
\* false, creates no stream and neither creates nor changes any backing
\* object.
C15_MissingContentRejected ==
  [][(fifoEv'.op = "writeContent" /\ ~existsSync(fifoEv'.path)) =>
       /\ fifoEv'.ret = FALSE
       /\ ~fifoEv'.threw
       /\ UNCHANGED <<objs, streams, contentCalls>>]_vars

C15_Witness ==
  /\ fifoEv.op = "writeContent" /\ fifoEv.path = Missing
  /\ fifoEv.ret = FALSE
  /\ objs[0].data = <<ConcatEntry("A.mp4")>>
  /\ streams = <<>>

\* C16: no I/O error of an append made by writeContent ends as an uncaught
\* exception of the host process: the call that made the append has
\* reported false.
C16_AppendErrorsAbsorbed == uncaught # 0

\* the bytes of the source src, chunk by chunk
BytesOf(src) == [k \in 1..Chunks[src] |-> <<src, k>>]

\* C17: writeLayer returns true exactly when index is in [0, layerCount)
\* and the path exists; when it returns false it creates no stream and
\* leaves every backing object as it is.
C17_WriteLayerValidation ==
  [][fifoEv'.op = "writeLayer" =>
       /\ fifoEv'.ret = (/\ fifoEv'.index >= 0
                         /\ fifoEv'.index < layerCount
                         /\ existsSync(fifoEv'.path))
       /\ ~fifoEv'.threw
       /\ fifoEv'.ret = FALSE => UNCHANGED <<objs, streams, layerCalls>>
       /\ fifoEv'.ret = TRUE =>
            /\ Len(streams') = Len(streams) + 1
            /\ streams'[Len(streams')].ch = fifoEv'.index + 1]_vars

C17_Witness ==
  /\ layerCount = 2
  /\ fifoEv.op = "writeLayer" /\ fifoEv.index = 2 /\ fifoEv.ret = FALSE
  /\ existsSync(fifoEv.path)
  /\ \E i \in 1..Len(streams) : streams[i].ch = 2

\* C18: once the copies of the writeLayer calls on a layer have finished,
\* the file that backs the layer holds exactly the bytes of the source of
\* the last call, also when that call was made before the copy of an
\* earlier one had finished.
C18_LastWriteWins ==
  \A ch \in 1..layerCount :
    (/\ uncaught = -1
     /\ Quiet(ch)
     /\ layerCalls[ch] # "none"
     /\ objs[ch].kind = "file")
      => objs[ch].data = BytesOf(layerCalls[ch])

\* the kind createSingle leaves in place
ExpectedKind == IF canUseFifos THEN "fifo" ELSE "file"

C20_CleanupUnlinksAll ==
  [][fifoEv'.op = "cleanup" =>
       /\ ~fifoEv'.threw
       /\ activeFifos' = {}
       /\ \A ch \in Configured :
            objs[ch].kind # "none" => ch \in fifoEv'.attempted]_vars

(***************************************************************************)
(* Properties of the output directory (HlsService)                         *)
(***************************************************************************)
\* the segment files of a directory
SegmentsOf(dir) == segmentFilter(readdirSync(dir))

\* a pass of cleanupOldSegments() has run and has returned
PassDone == pass.pc = "idle" /\ pass.by # "none"

\* the listed files that are gone though the pass did not delete them
GoneUnderPass == {f \in pass.listed : hlsDir[f] = 0 /\ f \notin pass.deleted}

\* what one pass that nothing disturbs leaves of the directory it found
RetentionResult ==
  LET c == Cardinality(SegmentsOf(pass.before))
      w == playlistSize + 2
      left == SegmentsOf(hlsDir)
  IN /\ Cardinality(left) = Min({c, w})
     /\ left \subseteq SegmentsOf(pass.before)
     /\ \A f \in left : hlsDir[f] = pass.before[f]
     /\ \A f \in left : \A g \in SegmentsOf(pass.before) \ left :
          pass.before[f] >= pass.before[g]
     /\ c <= w => hlsDir = pass.before

C22_WriterRaceSkipsFile ==
  (PassDone /\ pass.readable /\ GoneUnderPass # {}
     /\ Cardinality(pass.listed) > playlistSize + 2) =>
    /\ ~pass.aborted
    /\ Cardinality(pass.selected) >=
         Cardinality(pass.listed \ GoneUnderPass) - (playlistSize + 2)
    /\ pass.selected \cap GoneUnderPass \subseteq pass.warned
    /\ pass.selected \ (GoneUnderPass \cup pass.failed) \subseteq pass.deleted

\* C23: when the output directory cannot be read, cleanupOldSegments()
\* deletes nothing, warns and returns without an exception, and
\* getCurrentSegmentCount() returns 0 without an exception; a pass made
\* after the directory has become readable again runs like any other.
C23_UnreadableDirectory ==
  /\ (PassDone /\ ~pass.readable) =>
       /\ pass.aborted /\ pass.deleted = {} /\ pass.selected = {}
       /\ hlsDir = pass.before
       /\ hlsEv.op = "cleanupOldSegments" =>
            ~hlsEv.threw /\ hlsEv.ret = "void"
  /\ (hlsEv.op = "getCurrentSegmentCount" /\ ~hlsEv.readable) =>
       hlsEv.count = 0 /\ ~hlsEv.threw
  /\ hlsEv.op = "cleanupOldSegments" => ~hlsEv.threw
  /\ (PassDone /\ pass.afterUnreadable /\ pass.readable) =>
       /\ ~pass.aborted \/ pass.writes > 0
       /\ (pass.writes = 0 /\ pass.failed = {}) =>
            Cardinality(SegmentsOf(hlsDir)) =
              Min({Cardinality(SegmentsOf(pass.before)), playlistSize + 2})

C23_Witness ==
  /\ PassDone /\ pass.afterUnreadable /\ pass.readable
  /\ pass.deleted # {} /\ pass.writes = 0 /\ pass.failed = {}
  /\ hlsEv.op = "getCurrentSegmentCount" /\ ~hlsEv.readable
  /\ hlsEv.count = 0 /\ SegmentsOf(hlsDir) # {}

\* C24: after stopCleanupScheduler() has returned no timer invokes a
\* cleanup pass until startCleanupScheduler() is called again, whatever
\* calls of the two came before; and stopCleanupScheduler() called while no
\* scheduler runs changes nothing.
C24_NoPassAfterStop ==
  [][/\ (nHlsCalls' = nHlsCalls + 1 /\ pass'.by = "timer") => ~schedStopped
     /\ (hlsInterval = 0 /\ schedStopped' /\ UNCHANGED dirVars) =>
          UNCHANGED <<hlsInterval, timers>>]_vars

\* C25: cleanupAll() never throws; it removes every playlist (.m3u8) and
\* segment (.ts) file of the output directory and leaves the other files in
\* place; when the deletion of one file fails, the other playlist and
\* segment files are deleted all the same.
C25_CleanupAllRemovesAll ==
  (hlsEv.op = "cleanupAll" /\ hlsEv.readable) =>
    /\ ~hlsEv.threw
    /\ \A f \in hlsFiles(readdirSync(hlsEv.before)) \ hlsEv.failed :
         hlsDir[f] = 0
    /\ \A f \in FileNames \ hlsFiles(FileNames) :
         hlsDir[f] = hlsEv.before[f]

(***************************************************************************)
(* Properties of the capability flags and of buildArgs()                   *)
(***************************************************************************)
\* C26: on every platform and with any of the WSL and MSYS/MinGW variables
\* set, FifoService.canUseFifos() and FFmpegService.canUseFifos() return
\* the same value, so that buildArgs() takes the branch that the creation
\* of the channels has taken.
C26_SameCapabilityFlag ==
  /\ argEv.op = "FifoService.canUseFifos" =>
       argEv.flag = FFmpegService_canUseFifos(platform, env)
  /\ argEv.op = "FFmpegService.canUseFifos" =>
       argEv.flag = FifoService_canUseFifos(platform, env)
  /\ argEv.op = "buildArgs" => argEv.flag = canUseFifos

\* the positions of the '-i' arguments of an argument list
InputPositions(args) == {i \in 1..(Len(args) - 1) : args[i].s = "-i"}

\* the values of the '-i' arguments, in their order: input 0, input 1, ...
InputsOf(args) ==
  [k \in 1..Cardinality(InputPositions(args)) |->
     LET i == CHOOSE i \in InputPositions(args) :
                Cardinality({j \in InputPositions(args) : j < i}) = k - 1
     IN args[i + 1].s]

\* the filter graph of an argument list, empty when it has none
GraphOf(args) ==
  IF \E i \in 1..(Len(args) - 1) : args[i].s = "-filter_complex"
  THEN args[(CHOOSE i \in 1..(Len(args) - 1) :
               args[i].s = "-filter_complex") + 1].graph
  ELSE <<>>

IsOverlay(chain) == chain.filters[1].f = "overlay"

IsMix(chain) == chain.filters[1].f = "amix"

PositionIn(s, x) == CHOOSE k \in 1..Len(s) : s[k] = x

\* C27: on a platform with named pipes, for every layer count n, the input
\* index that the filter graph of buildArgs() uses for the content channel
\* and for each layer i is the position of the path of that channel among
\* the '-i' arguments (content before the layers, the layers in index
\* order); the layers are overlaid in index order, each on the result of
\* the one before; every label is produced once, before it is consumed; and
\* the audio mix has n + 2 inputs, one per input that carries audio.
C27_BuildArgsInputIndices ==
  (argEv.op = "buildArgs" /\ argEv.flag) =>
    LET args == argEv.args
        graph == GraphOf(args)
        inputs == InputsOf(args)
        overlays == SelectSeq(graph, IsOverlay)
        mix == SelectSeq(graph, IsMix)
        n == layerCount
    IN /\ Len(inputs) = n + 3
       /\ Len(overlays) = n + 1
       /\ inputs[overlays[1].ins[2].idx + 1] = ContentFifoPath
       /\ \A i \in 0..(n - 1) :
            /\ inputs[overlays[i + 2].ins[2].idx + 1] = LayerFifoPath(i)
            /\ overlays[i + 2].ins[2].name = "v"
            /\ overlays[i + 2].ins[1] = overlays[i + 1].out
            /\ PositionIn(inputs, ContentFifoPath)
                 < PositionIn(inputs, LayerFifoPath(i))
            /\ \A j \in 0..(i - 1) :
                 PositionIn(inputs, LayerFifoPath(j))
                   < PositionIn(inputs, LayerFifoPath(i))
       /\ \A j \in 1..Len(graph) :
            /\ \A k \in 1..Len(graph) :
                 k # j => graph[k].out # graph[j].out
            /\ \A p \in 1..Len(graph[j].ins) :
                 graph[j].ins[p].idx = -1 =>
                   \E k \in 1..(j - 1) : graph[k].out = graph[j].ins[p]
       /\ Len(mix) = 1
       /\ mix[1].filters[1].x = n + 2
       /\ Len(mix[1].ins) = n + 2
       /\ {mix[1].ins[p].idx : p \in 1..(n + 2)} = 1..(n + 2)
       /\ \A p \in 1..(n + 2) : mix[1].ins[p].name = "a"

C27_Witness ==
  /\ argEv.op = "buildArgs" /\ argEv.flag
  /\ layerCount = 2 /\ platform = "win32"
  /\ Len(InputsOf(argEv.args)) = 5

\* C28: for every layer count and for both values of the capability flag,
\* the argument list of buildArgs() holds a filter graph, the video chain
\* of that graph ends in the zmq filter bound to the configured port, and
\* the output of that filter is what is encoded.
C28_ZmqSinkInEveryGraph ==
  argEv.op = "buildArgs" =>
    LET args == argEv.args
        graph == GraphOf(args)
    IN /\ \E i \in 1..(Len(args) - 1) : args[i].s = "-filter_complex"
       /\ \E j \in 1..Len(graph) :
            /\ graph[j].out = Label("vout")
            /\ graph[j].filters[Len(graph[j].filters)] = Filter("zmq", ZmqPort)
       /\ \E i \in 1..(Len(args) - 1) :
            args[i].s = "-map" /\ args[i + 1].s = "[vout]"

\* the backing paths of the channels
ChannelPaths ==
  {ContentFifoPath} \cup {LayerFifoPath(i) : i \in 0..(MaxLayers - 1)}

\* C29: without named pipes, whatever the number of configured layers, the
\* argument list of buildArgs() has exactly two inputs, the generated
\* colour video and the generated silence, and names the backing path of no
\* channel.
C29_DegradedInputs ==
  (argEv.op = "buildArgs" /\ ~argEv.flag) =>
    LET args == argEv.args
    IN /\ InputsOf(args) = <<ColorSource, SilenceSource>>
       /\ \A i \in InputPositions(args) :
            i > 2 /\ args[i - 2].s = "-f" /\ args[i - 1].s = "lavfi"
       /\ \A i \in 1..Len(args) : args[i].s \notin ChannelPaths
       /\ GraphOf(args) = <<>>

C29_Witness ==
  /\ argEv.op = "buildArgs" /\ ~argEv.flag
  /\ layerCount = 2 /\ platform = "win32" /\ env = {}
  /\ Len(argEv.args) > 0

(***************************************************************************)
(* Properties of initializeContent()                                       *)
(***************************************************************************)
\* C30: initializeContent() never throws and makes at most one writeContent
\* call: none without named pipes; with the configured default source on
\* the disk exactly that path is enqueued; without it the generated
\* placeholder is enqueued if generating it succeeded, and else nothing is
\* enqueued and the failure is logged.
C30_InitializeContent ==
  /\ ~initEv.threw
  /\ Len(initEv.calls) <= 1
  /\ initPc = "done" =>
       IF ~FFmpegService_canUseFifos(platform, env)
         THEN initEv.calls = <<>> /\ contentCalls = <<>> /\ ~initEv.logged
       ELSE IF InitialContent \in mediaFiles
         THEN /\ initEv.calls = <<InitialContent>>
              /\ contentCalls = <<InitialContent>>
              /\ ~initEv.logged
       ELSE IF initEv.generated
         THEN /\ initEv.calls = <<BlankPath>>
              /\ contentCalls = <<BlankPath>>
              /\ ~initEv.logged
         ELSE /\ initEv.calls = <<>>
              /\ contentCalls = <<>>
              /\ initEv.logged

C30_Witness ==
  /\ initPc = "done"
  /\ initEv.logged
  /\ initEv.calls = <<>>
  /\ InitialContent \notin mediaFiles

(***************************************************************************)
(* Properties of the handle under late timers and late events              *)
(***************************************************************************)
\* C31: the force-kill timer of stop() acts on the child stop() was called
\* for only: when it fires while the handle holds another child (the one
\* it was armed for has exited and a successor was spawned), it neither
\* signals that child nor clears the handle.
C31_KillTimerActsOnItsChild ==
  [][(/\ killTimers' = killTimers - 1
      /\ track.killFor # <<>>
      /\ process # 0
      /\ Head(track.killFor) # process)
       => (process' = process /\ children'[process] = children[process])]_vars

\* C32: a 'close' or 'error' event of child P clears the handle only when
\* the handle is P: delivered while the handle holds another child, it
\* leaves the handle as it is.
C32_LateEventKeepsNewerHandle ==
  [][\A c \in ChildIds :
       (/\ children[c].st \in {"exited", "errored", "failed"}
        /\ children'[c] # children[c]
        /\ ev'.op \in {"close", "error"}
        /\ ev'.child = c
        /\ process # 0
        /\ process # c)
       => process' = process]_vars

(***************************************************************************)
(* Properties of the shutdown                                              *)
(***************************************************************************)
\* C33: a graceful shutdown that runs to its end does not leave a live
\* child behind: when process.exit(0) has been reached, every child has
\* exited or has been sent SIGKILL.
C33_NoExitBeforeChild ==
  (sdFlag /\ hostExit = 0) =>
    \A c \in ChildIds :
      children[c].st = "running" => children[c].sig = "SIGKILL"

(***************************************************************************)
(* Properties of restart()                                                 *)
(***************************************************************************)
\* a child of before restart() runs beside one spawned after it
OldBesideNew ==
  \E c \in LiveChildren \ track.since : \E d \in LiveChildren : d \in track.since

\* exactly one child runs, it was spawned after restart() was called and
\* it is the one in the handle
OneNewChild ==
  \E c \in track.since : LiveChildren = {c} /\ process = c

\* restart() was called and nothing is pending: no timer, no pause, no
\* event to deliver, no signal sent to a child that runs
Settled ==
  /\ track.restarted
  /\ killTimers = 0 /\ restartTimers = 0 /\ restartWaits = 0
  /\ \A c \in ChildIds :
       \/ children[c].st = "free"
       \/ children[c].st = "running" /\ children[c].sig = "none"

\* C34: after restart() with the shutdown flag unset, a state is reached in
\* which exactly one child runs and that child was spawned after the
\* call, whether the old child exits before the 500 ms
\* pause ends or after it; when nothing is pending any more that is the
\* state; and no child of before the call ever runs beside one spawned
\* after it.
C34_RestartLeavesOneChild ==
  /\ [](track.restarted => ~OldBesideNew)
  /\ [](Settled => OneNewChild)
  /\ (ev.op = "restart" ~> OneNewChild)

C34_Witness ==
  /\ track.restarted
  /\ OneNewChild
  /\ ev.op = "restartTimer" /\ ev.spawned

\* C35: once initialize() has failed because the bind was rejected, the
\* channel is uninitialized: isConnected() is false, and the next
\* sendInstruction returns false without handing anything to the socket
C35_FailedBindLeavesUninitialized ==
  /\ []((zmqEv.op = "initialize" /\ zmqEv.threw) => ~isConnected)
  /\ [][(zmqEv.op = "initialize" /\ zmqEv.threw /\ IsSendCall)
         => (zmqEv'.ret = "false" /\ zmqPending' = zmqPending)]_vars

\* what was written to the response of connection c must hold: the
\* 'connected' message, then the ring as it was at connection time, then the
\* entries appended since, up to the disconnection
Expected(c) ==
  stream.snap[c] \o SubSeq(appended, stream.from[c] + 1,
                           IF stream.st[c] = "open" THEN Len(appended)
                           ELSE stream.to[c])

\* C36: a streamLogs connection receives every entry that is in the ring at
\* connection time followed by every entry appended afterwards, each exactly
\* once and in append order, until it disconnects, and nothing is written to
\* it after it has disconnected
C36_StreamDeliversEachEntryOnce ==
  /\ [](\A c \in Clients : stream.st[c] # "idle" =>
          /\ Head(stream.out[c]).type = "connected"
          /\ LogsOf(stream.out[c]) = Expected(c))
  /\ [][\A c \in Clients : stream.st[c] = "closed" =>
          stream'.out[c] = stream.out[c]]_vars

C36_Witness ==
  \E c \in Clients :
    /\ stream.st[c] = "closed"
    /\ stream.snap[c] # <<>>
    /\ stream.from[c] < stream.to[c]
    /\ stream.to[c] < Len(appended)
    /\ Len(LogsOf(stream.out[c])) = Len(stream.snap[c]) + stream.to[c] - stream.from[c]

\* C37: when a subscriber callback throws during addToLogBuffer, the entry
\* is still stored in the ring, every other subscriber is still notified of
\* it, and the exception does not reach the caller of addToLogBuffer
C37_FanOutIsolated ==
  [][appended' # appended =>
       LET e == appended'[Len(appended')] IN
         /\ logBuffer' # <<>> /\ logBuffer'[Len(logBuffer')] = e
         /\ \A cb \in Callbacks : IndexOf(logListeners, cb) # 0 =>
               delivered'[cb] = Append(delivered[cb], e)
         /\ ~stream'.escaped
         /\ stream'.warned = Cardinality(stream'.threw)]_vars

C37_Witness ==
  /\ appended # <<>>
  /\ \E cb \in stream.threw : \E other \in Callbacks \ stream.threw :
       /\ IndexOf(logListeners, cb) # 0
       /\ IndexOf(logListeners, cb) < IndexOf(logListeners, other)
       /\ delivered[other] # <<>>
       /\ delivered[other][Len(delivered[other])] = appended[Len(appended)]
       /\ logBuffer[Len(logBuffer)] = appended[Len(appended)]

\* C38: shutdownServices runs at most once: a trigger (signal or uncaught
\* exception) that arrives while a shutdown is in progress starts nothing
\* again and makes the host exit with status 1
C38_ShutdownRunsOnce ==
  /\ [](Cardinality({i \in 1..Len(sdTrace) : sdTrace[i] = "ffmpeg.stop"}) <= 1)
  /\ [][(sdFlag /\ GracefulShutdown)
         => (hostExit' = 1 /\ sdTrace' = sdTrace /\ sdPc' = sdPc)]_vars

C38_Witness ==
  /\ sdFlag /\ hostExit = 1 /\ sdPc = "awaitAll"
  /\ Cardinality({i \in 1..Len(sdTrace) : sdTrace[i] = "ffmpeg.stop"}) = 1

\* the requests of ip admitted at the times from..to
AdmittedIn(ip, from, to) ==
  Cardinality({i \in 1..Len(rate.admitted[ip]) :
                 from <= rate.admitted[ip][i] /\ rate.admitted[ip][i] <= to})

\* C39: per client IP at most maxRequests requests are admitted in any
\* window of windowMs; a request that finds maxRequests admitted requests
\* within the preceding windowMs is answered 429 and is not counted, any
\* other request is admitted (so a client is admitted again once older
\* requests have left the window), and the requests of one client leave
\* the allowance of the others alone
C39_RateLimit ==
  /\ [](\A ip \in ClientIps : \A t \in 0..MaxTime :
          AdmittedIn(ip, t, t + windowMs - 1) <= maxRequests)
  /\ [][rate'.n # rate.n =>
          LET ip == rate'.res.ip
              recent == AdmittedIn(ip, rate.now - windowMs + 1, rate.now)
          IN  /\ rate'.res.status = (IF recent >= maxRequests THEN 429 ELSE 200)
              /\ rate'.admitted[ip] =
                    (IF recent >= maxRequests THEN rate.admitted[ip]
                     ELSE Append(rate.admitted[ip], rate.now))
              /\ \A other \in ClientIps \ {ip} :
                    /\ rate'.admitted[other] = rate.admitted[other]
                    /\ other \in DOMAIN rate.requests =>
                          rate'.requests[other] = rate.requests[other]]_vars

C39_Witness ==
  \E ip \in ClientIps : \E other \in ClientIps \ {ip} :
    /\ rate.refused[ip]
    /\ rate.res = [ip |-> ip, status |-> 200]
    /\ Len(rate.admitted[ip]) > maxRequests
    /\ rate.admitted[other] # <<>>
====
